---- MODULE Spec2Model ----
(***************************************************************************)
(* A model of the viv_script compiler: the lexer (parser/lexer.rs), the    *)
(* recursive-descent parser (parser/syntax_parser.rs), the analyzer passes *)
(* (analyzers/), the IR generator (llvm_generator.rs) and the driver       *)
(* (lib.rs, main.rs).                                                      *)
(***************************************************************************)
EXTENDS Integers, Sequences, FiniteSets, TLC

VARIABLES
    source,     \* the code: &str handed to Lexer::new
    lexer,      \* the Lexer struct and the frame of Lexer::parse_file
    returned,   \* what Lexer::parse_file returned
    compiler,   \* the frame of compile_to_ir: its position, the ast, its result
    machine     \* the process that run_exe starts from the executable

vars == <<source, lexer, returned, compiler, machine>>

(***************************************************************************)
(* Characters.  A character is a one-character string; NonAsciiLetter      *)
(* stands for U+00E9, a letter (char::is_alphabetic) whose UTF-8 encoding  *)
(* takes two bytes.                                                        *)
(***************************************************************************)
NonAsciiLetter == "U+00E9"

AsciiLetters ==
    {"a", "b", "c", "d", "e", "f", "g", "h", "i", "j", "k", "l", "m",
     "n", "o", "p", "q", "r", "s", "t", "u", "v", "w", "x", "y", "z",
     "A", "B", "C", "D", "E", "F", "G", "H", "I", "J", "K", "L", "M",
     "N", "O", "P", "Q", "R", "S", "T", "U", "V", "W", "X", "Y", "Z"}

IsAlphabetic(c) == c \in AsciiLetters \cup {NonAsciiLetter}

IsAsciiDigit(c) == c \in {"0", "1", "2", "3", "4", "5", "6", "7", "8", "9"}

IsWhitespace(c) == c \in {" ", "\n", "\t"}

Quote == "\""

\* Option<char>::None, as advance() and peek() return it at the end of input
None == "None"

\* char::len_utf8
Utf8Len(c) == IF c = NonAsciiLetter THEN 2 ELSE 1

\* str::len: the length of a string in bytes
RECURSIVE StrLen(_)
StrLen(s) == IF s = <<>> THEN 0 ELSE Utf8Len(Head(s)) + StrLen(Tail(s))

(***************************************************************************)
(* parser/source_location.rs                                               *)
(***************************************************************************)
SourceLocationNew(line, char_start, char_end) ==
    [line_start |-> line, line_end |-> line,
     char_start |-> char_start, char_end |-> char_end]

NoLocation == SourceLocationNew(0, 0, 0)

Min(a, b) == IF a <= b THEN a ELSE b
Max(a, b) == IF a >= b THEN a ELSE b

\* combine with the columns of its first argument
SourceLocationCombine_FirstColumns(a, b) ==
    [line_start |-> Min(a.line_start, b.line_start),
     line_end   |-> Max(a.line_end, b.line_end),
     char_start |-> a.char_start,
     char_end   |-> a.char_end]

SourceLocationCombine(a, b) ==
    [line_start |-> Min(a.line_start, b.line_start),
     line_end   |-> Max(a.line_end, b.line_end),
     char_start |-> Min(a.char_start, b.char_start),
     char_end   |-> Max(a.char_end, b.char_end)]

(***************************************************************************)
(* parser/tokens.rs                                                        *)
(***************************************************************************)
TokenValue(kind) == [kind |-> kind, text |-> <<>>]
TokenValueOf(kind, text) == [kind |-> kind, text |-> text]

Token(value, location) == [value |-> value, source_location |-> location]

(***************************************************************************)
(* CompilerResult<T> = Result<T, (SourceLocation, String)>                 *)
(***************************************************************************)
NoError == [is_err |-> FALSE, location |-> NoLocation, message |-> <<>>]
CompileError(location, message) ==
    [is_err |-> TRUE, location |-> location, message |-> message]

(***************************************************************************)
(* parser/lexer.rs                                                         *)
(***************************************************************************)
LexerNew(code) ==
    [code |-> code, current_line |-> 1, current_colum |-> 0, tokens |-> <<>>,
     error |-> NoError, pc |-> "new"]

Peek(L) == IF L.code = <<>> THEN None ELSE Head(L.code)

Advance(L) ==
    IF L.code = <<>>
    THEN [L EXCEPT !.current_colum = @ + 1]
    ELSE IF Head(L.code) = "\n"
         THEN [L EXCEPT !.code = Tail(@), !.current_line = @ + 1, !.current_colum = 0]
         ELSE [L EXCEPT !.code = Tail(@), !.current_colum = @ + 1]

\* the number of leading characters of code that satisfy the predicate
IsIdentifierChar(c) == IsAlphabetic(c) \/ c = "_"
IsStringChar(c) == c # Quote /\ c # "\n"
IsLineChar(c) == c # "\n"

\* the closures handed to advance_until and take_while, by name
Satisfies(predicate, c) ==
    CASE predicate = "is_whitespace"   -> IsWhitespace(c)
      [] predicate = "is_identifier"   -> IsIdentifierChar(c)
      [] predicate = "is_string"       -> IsStringChar(c)
      [] predicate = "is_line"         -> IsLineChar(c)
      [] predicate = "is_ascii_digit"  -> IsAsciiDigit(c)

PrefixLen(code, predicate) ==
    LET stops == {i \in 1..Len(code) : ~Satisfies(predicate, code[i])}
    IN  IF stops = {} THEN Len(code)
        ELSE (CHOOSE i \in stops : \A j \in stops : i <= j) - 1

RECURSIVE AdvanceTimes(_, _)
AdvanceTimes(L, n) == IF n = 0 THEN L ELSE AdvanceTimes(Advance(L), n - 1)

AdvanceUntil(L, predicate) == AdvanceTimes(L, PrefixLen(L.code, predicate))

\* take_while: the characters taken, and the lexer after them
TakeWhileChars(L, predicate) == SubSeq(L.code, 1, PrefixLen(L.code, predicate))
TakeWhile(L, predicate) == AdvanceTimes(L, PrefixLen(L.code, predicate))

EatWhitespace(L) == AdvanceUntil(L, "is_whitespace")

(***************************************************************************)
(* emit_token computes current_colum - len + 1 in usize.  When len exceeds *)
(* current_colum the subtraction overflows: a build with overflow checks   *)
(* panics, a build without them wraps modulo 2^64.  A wrapped value is     *)
(* carried as its two's-complement signed reading (0 stays 0, 2^64 - k is  *)
(* -k), which is what the plain difference below yields.                   *)
(***************************************************************************)
EmitToken(L, len, value, overflow_checks) ==
    IF L.current_colum < len /\ overflow_checks
    THEN [L EXCEPT !.pc = "panic"]
    ELSE [L EXCEPT !.tokens = Append(@,
            Token(value, SourceLocationNew(L.current_line,
                                           L.current_colum - len + 1,
                                           L.current_colum)))]

Break(L, message) ==
    [L EXCEPT !.error = CompileError(
                  SourceLocationNew(L.current_line, L.current_colum, L.current_colum),
                  message),
              !.pc = "break"]


ConsumeIdentifier(L, char, overflow_checks) ==
    LET word == <<char>> \o TakeWhileChars(L, "is_identifier")
        L1   == TakeWhile(L, "is_identifier")
    IN  CASE word = <<"p", "r", "i", "n", "t">> ->
                EmitToken(L1, 5, TokenValue("Print"), overflow_checks)
          [] word = <<"a", "s", "s", "e", "r", "t">> ->
                EmitToken(L1, 6, TokenValue("Assert"), overflow_checks)
          [] word = <<"f", "n">> ->
                EmitToken(L1, 2, TokenValue("Fn"), overflow_checks)
          [] word = <<"r", "e", "t", "u", "r", "n">> ->
                EmitToken(L1, 6, TokenValue("Return"), overflow_checks)
          [] word = <<"t", "r", "u", "e">> ->
                EmitToken(L1, 4, TokenValue("True"), overflow_checks)
          [] word = <<"f", "a", "l", "s", "e">> ->
                EmitToken(L1, 5, TokenValue("False"), overflow_checks)
          [] word = <<"t", "e", "s", "t">> ->
                EmitToken(L1, 4, TokenValue("Test"), overflow_checks)
          [] word = <<"i", "s">> ->
                EmitToken(L1, 2, TokenValue("Is"), overflow_checks)
          [] OTHER ->
                EmitToken(L1, StrLen(word), TokenValueOf("Identifier", word),
                          overflow_checks)


\* ConsumeString taking the end of input for the closing quote
ConsumeString_EndCloses(L, overflow_checks) ==
    LET string_content == TakeWhileChars(L, "is_string")
        L1  == TakeWhile(L, "is_string")
        end == Peek(L1)
        L2  == Advance(L1)
    IN  IF end # Quote /\ end # None
        THEN Break(L2, <<"Unclosed String">>)
        ELSE EmitToken(L2, StrLen(string_content) + 2,
                       TokenValueOf("String", string_content), overflow_checks)

ConsumeString(L, overflow_checks) ==
    LET string_content == TakeWhileChars(L, "is_string")
        L1  == TakeWhile(L, "is_string")
        end == Peek(L1)
        L2  == Advance(L1)
    IN  IF end # Quote
        THEN Break(L2, <<"Unclosed String">>)
        ELSE EmitToken(L2, StrLen(string_content) + 2,
                       TokenValueOf("String", string_content), overflow_checks)

SingleCharTokens ==
    [c \in {";", "+", "*", ",", "(", ")", "{", "}"} |->
        CASE c = ";" -> "Semicolon"
          [] c = "+" -> "Plus"
          [] c = "*" -> "Star"
          [] c = "," -> "Comma"
          [] c = "(" -> "OpenParen"
          [] c = ")" -> "CloseParen"
          [] c = "{" -> "OpenBracket"
          [] c = "}" -> "CloseBracket"]

\* c followed by second is the two-character token two, else the token one
OneOrTwo(L, second, two, one, overflow_checks) ==
    IF Peek(L) = second
    THEN EmitToken(Advance(L), 2, TokenValue(two), overflow_checks)
    ELSE EmitToken(L, 1, TokenValue(one), overflow_checks)

LexSlash(L, overflow_checks) ==
    IF Peek(L) = "/"
    THEN TakeWhile(Advance(L), "is_line")
    ELSE EmitToken(L, 1, TokenValue("ForwardSlash"), overflow_checks)

LexBang(L, overflow_checks) ==
    LET c  == Peek(L)
        L1 == Advance(L)
    IN  IF c = "="
        THEN EmitToken(L1, 2, TokenValue("BangEqual"), overflow_checks)
        ELSE Break(L1, <<"Expected = found", c>>)

LexNumber(L, char, overflow_checks) ==
    LET digits == <<char>> \o TakeWhileChars(L, "is_ascii_digit")
    IN  EmitToken(TakeWhile(L, "is_ascii_digit"), StrLen(digits),
                  TokenValueOf("Number", digits), overflow_checks)

\* the match on the character that advance() returned
MatchChar(L, char, overflow_checks) ==
    CASE char \in DOMAIN SingleCharTokens ->
            EmitToken(L, 1, TokenValue(SingleCharTokens[char]), overflow_checks)
      [] char = "-" -> OneOrTwo(L, ">", "Arrow", "Minus", overflow_checks)
      [] char = "/" -> LexSlash(L, overflow_checks)
      [] char = "=" -> OneOrTwo(L, "=", "EqualEqual", "Equal", overflow_checks)
      [] char = ">" -> OneOrTwo(L, "=", "GreaterThanEqual", "GreaterThan", overflow_checks)
      [] char = "<" -> OneOrTwo(L, "=", "LessThanEqual", "LessThan", overflow_checks)
      [] char = "!" -> LexBang(L, overflow_checks)
      [] IsAsciiDigit(char) -> LexNumber(L, char, overflow_checks)
      [] char = Quote -> ConsumeString(L, overflow_checks)
      [] IsIdentifierChar(char) -> ConsumeIdentifier(L, char, overflow_checks)
      [] OTHER -> Break(L, <<"invalid char", char>>)

\* EndOfLoop without the emit of EndOfFile
EndOfLoop_NoEndOfFile(L, overflow_checks) ==
    [L EXCEPT !.pc = IF L.error.is_err THEN "err" ELSE "ok"]

\* after the loop: if error.is_ok() { emit EndOfFile }, then the return
EndOfLoop(L, overflow_checks) ==
    IF L.error.is_err
    THEN [L EXCEPT !.pc = "err"]
    ELSE LET L1 == EmitToken(L, 1, TokenValue("EndOfFile"), overflow_checks)
         IN  IF L1.pc = "panic" THEN L1 ELSE [L1 EXCEPT !.pc = "ok"]

\* one turn of the loop while let Some(char) = self.advance(), its exit included
ParseFileStep(L, overflow_checks) ==
    LET char == Peek(L)
        L1   == Advance(L)
    IN  IF char = None
        THEN EndOfLoop(L1, overflow_checks)
        ELSE LET L2 == MatchChar(L1, char, overflow_checks)
             IN  CASE L2.pc = "break" -> EndOfLoop(L2, overflow_checks)
                   [] L2.pc = "panic" -> L2
                   [] OTHER -> EatWhitespace(L2)

\* error.map(|_| self.tokens.clone())
NotReturned == [kind |-> "none", tokens |-> <<>>, error |-> NoError]
ReturnOf(L) ==
    CASE L.pc = "ok"    -> [kind |-> "ok", tokens |-> L.tokens, error |-> NoError]
      [] L.pc = "err"   -> [kind |-> "err", tokens |-> <<>>, error |-> L.error]
      [] L.pc = "panic" -> [kind |-> "panic", tokens |-> <<>>, error |-> NoError]
      [] OTHER          -> NotReturned

\* parse_file run to its return: the turns of the loop one after the other
RECURSIVE RunLexer(_, _)
RunLexer(L, overflow_checks) ==
    IF L.pc \in {"ok", "err", "panic"} THEN L
    ELSE RunLexer(ParseFileStep(L, overflow_checks), overflow_checks)

(***************************************************************************)
(* ast.rs                                                                  *)
(***************************************************************************)
NoType == "None"

ExpressionMetadataFrom(location) ==
    [location |-> location, type_information |-> NoType]

Literal(metadata, literal) ==
    [node |-> "Literal", metadata |-> metadata, literal |-> literal]

Var(metadata, name) ==
    [node |-> "Var", metadata |-> metadata, name |-> name]

Binary(left, operator, right, metadata) ==
    [node |-> "Binary", left |-> left, operator |-> operator, right |-> right,
     metadata |-> metadata]

ComparisonChain(first_element, comparisons, metadata) ==
    [node |-> "ComparisonChain", first_element |-> first_element,
     comparisons |-> comparisons, metadata |-> metadata]

PrefixExpression(op, expression, metadata) ==
    [node |-> "PrefixExpression", op |-> op, expression |-> expression,
     metadata |-> metadata]

LiteralType(type, value) == [type |-> type, value |-> value]

\* Expression::location
LocationOf(expression) == expression.metadata.location

\* the absent value of an Option, and the value of a result that holds none
NoValue == [node |-> "None"]

(***************************************************************************)
(* parser/syntax_parser.rs.  Every function takes the token queue and      *)
(* returns its result with the queue it leaves: status is "ok", "err" (a   *)
(* CompilerResult Err) or "panic" (an unwrap of None, an index past the    *)
(* end of the queue).                                                      *)
(***************************************************************************)
POk(value, tokens) ==
    [status |-> "ok", value |-> value, tokens |-> tokens, error |-> NoError]
PErr(location, message) ==
    [status |-> "err", value |-> NoValue, tokens |-> <<>>,
     error |-> CompileError(location, message)]
PPanic(message) ==
    [status |-> "panic", value |-> NoValue, tokens |-> <<>>,
     error |-> [is_err |-> FALSE, location |-> NoLocation, message |-> message]]

\* i32::MAX
MaxI32 == 2147483647

DigitValue(c) ==
    CASE c = "0" -> 0 [] c = "1" -> 1 [] c = "2" -> 2 [] c = "3" -> 3
      [] c = "4" -> 4 [] c = "5" -> 5 [] c = "6" -> 6 [] c = "7" -> 7
      [] c = "8" -> 8 [] c = "9" -> 9

\* str::parse::<i32> of a string of digits: the value, or -1 for the Err
\* that a value above i32::MAX gives
RECURSIVE ParseI32From(_, _)
ParseI32From(acc, digits) ==
    IF digits = <<>> THEN acc
    ELSE IF acc > (MaxI32 - DigitValue(Head(digits))) \div 10 THEN -1
    ELSE ParseI32From(acc * 10 + DigitValue(Head(digits)), Tail(digits))

ParseI32(digits) == ParseI32From(0, digits)

\* expect that takes the token without comparing it with the expected one
Expect_AnyToken(tokens, expected_kind) ==
    IF tokens = <<>> THEN PPanic(<<"advance: unwrap on None">>)
    ELSE POk(NoValue, Tail(tokens))

Expect(tokens, expected_kind) ==
    IF tokens = <<>> THEN PPanic(<<"advance: unwrap on None">>)
    ELSE LET token == Head(tokens)
         IN  IF token.value = TokenValue(expected_kind)
             THEN POk(NoValue, Tail(tokens))
             ELSE PErr(token.source_location,
                       <<"expected", expected_kind, "found", token.value.kind>>)

\* parse_literal without the arm of Minus: a Minus is no literal
ParseLiteral_NoMinus(tokens) ==
    IF tokens = <<>> THEN PPanic(<<"advance: unwrap on None">>)
    ELSE IF Head(tokens).value.kind = "Number"
    THEN POk(Literal(ExpressionMetadataFrom(Head(tokens).source_location),
                     LiteralType("Number", ParseI32(Head(tokens).value.text))),
             Tail(tokens))
    ELSE IF Head(tokens).value.kind = "Identifier"
    THEN POk(Var(ExpressionMetadataFrom(Head(tokens).source_location),
                 Head(tokens).value.text), Tail(tokens))
    ELSE PErr(Head(tokens).source_location,
              <<"Expected String(_), Number(_) or Minus got", Head(tokens).value.kind>>)

ParseLiteral(tokens) ==
    IF tokens = <<>> THEN PPanic(<<"advance: unwrap on None">>)
    ELSE
    LET token == Head(tokens)
        rest  == Tail(tokens)
        metadata == ExpressionMetadataFrom(token.source_location)
    IN  CASE token.value.kind = "String" ->
                POk(Literal(metadata, LiteralType("String", token.value.text)), rest)
          [] token.value.kind = "Number" ->
                IF ParseI32(token.value.text) < 0
                THEN PPanic(<<"parse: unwrap on Err">>)
                ELSE POk(Literal(metadata,
                                 LiteralType("Number", ParseI32(token.value.text))), rest)
          [] token.value.kind = "False" ->
                POk(Literal(metadata, LiteralType("Boolean", FALSE)), rest)
          [] token.value.kind = "True" ->
                POk(Literal(metadata, LiteralType("Boolean", TRUE)), rest)
          [] token.value.kind = "Minus" ->
                IF rest = <<>> THEN PPanic(<<"advance: unwrap on None">>)
                ELSE LET digits == Head(rest)
                     IN  IF digits.value.kind = "Number"
                         THEN IF ParseI32(digits.value.text) < 0
                              THEN PPanic(<<"parse: unwrap on Err">>)
                              ELSE POk(Literal(metadata,
                                         LiteralType("Number",
                                                     -ParseI32(digits.value.text))),
                                       Tail(rest))
                         ELSE PErr(digits.source_location,
                                   <<"Expected Number(_) got", digits.value.kind>>)
          [] token.value.kind = "Identifier" ->
                POk(Var(metadata, token.value.text), rest)
          [] OTHER ->
                PErr(token.source_location,
                     <<"Expected String(_), Number(_) or Minus got", token.value.kind>>)

OperatorPrecedenceLevels ==
    << << <<"Plus", "Add">>, <<"Minus", "Sub">> >>,
       << <<"Star", "Mul">>, <<"ForwardSlash", "Div">> >> >>

\* the operator of the level that the token stands for, or NoValue
OperatorAt(level, kind) ==
    LET pairs == OperatorPrecedenceLevels[level + 1]
        hits  == {i \in DOMAIN pairs : pairs[i][1] = kind}
    IN  IF hits = {} THEN NoValue
        ELSE [node |-> "Operator",
              operator |-> pairs[CHOOSE i \in hits : \A j \in hits : i <= j][2]]

ComparisonOf(kind) ==
    CASE kind = "EqualEqual"       -> "Equal"
      [] kind = "BangEqual"        -> "NotEqual"
      [] kind = "LessThan"         -> "LessThan"
      [] kind = "LessThanEqual"    -> "LessThanEqual"
      [] kind = "GreaterThan"      -> "GreaterThan"
      [] kind = "GreaterThanEqual" -> "GreaterThanEqual"
      [] OTHER                     -> NoType

\* the span of a comparison chain: the fold of combine over its operands
RECURSIVE FoldLocations(_, _)
FoldLocations(location, chains) ==
    IF chains = <<>> THEN location
    ELSE FoldLocations(SourceLocationCombine(location, LocationOf(Head(chains)[2])),
                       Tail(chains))

TestStatement(name, expression) ==
    [node |-> "Test", name |-> name, expression |-> expression]
Assignment(expression_location, var_name, expression) ==
    [node |-> "Assignment", expression_location |-> expression_location,
     var_name |-> var_name, expression |-> expression]
IfStatement(condition, then, otherwise) ==
    [node |-> "If", condition |-> condition, then |-> then, otherwise |-> otherwise]

\* FunctionMetadata::default: no variable types, no return type
FunctionMetadataDefault == [var_types |-> <<>>, return_type |-> NoType]

FunctionDefinition(function_name, body, return_type_name, return_type_location) ==
    [node |-> "FunctionDefinition", function_name |-> function_name, body |-> body,
     return_type_name |-> return_type_name,
     return_type_location |-> return_type_location,
     metadata |-> FunctionMetadataDefault]

\* Each function below is cut at its calls that end in a question mark: the
\* operator that follows takes the call's result and is the rest of the
\* function, which an Err or a panic of the call skips.

\* self.expect(kind)? and then Ok(value)
Keep(value, result) ==
    IF result.status # "ok" THEN result ELSE POk(value, result.tokens)

\* self.expect(kind)? after a call that gave result
ExpectAfter(result, kind) ==
    IF result.status # "ok" THEN result
    ELSE Keep(result.value, Expect(result.tokens, kind))

RECURSIVE ParseGroup(_), ParsePrefix(_), ParseBinaryExpression(_, _),
          BinaryLoop(_, _, _), ParseComparison(_), ComparisonLoop(_, _, _)

ParseExpression(tokens) == ParseComparison(tokens)

ParseGroup(tokens) ==
    IF tokens = <<>> THEN PPanic(<<"peek: index out of bounds">>)
    ELSE IF Head(tokens).value.kind = "OpenParen"
    THEN ExpectAfter(ParseExpression(Tail(tokens)), "CloseParen")
    ELSE ParseLiteral(tokens)

\* parse_prefix after its recursive call
PrefixOf(location, expr) ==
    IF expr.status # "ok" THEN expr
    ELSE POk(PrefixExpression("Not", expr.value, ExpressionMetadataFrom(location)),
             expr.tokens)

ParsePrefix(tokens) ==
    IF tokens = <<>> THEN PPanic(<<"peek: index out of bounds">>)
    ELSE IF Head(tokens).value.kind = "Bang"
    THEN PrefixOf(Head(tokens).source_location, ParsePrefix(Tail(tokens)))
    ELSE ParseGroup(tokens)

\* the loop of parse_binary_expression once the right operand is parsed
BinaryLoopRight(level, left_expression, operator, right) ==
    IF right.status # "ok" THEN right
    ELSE BinaryLoop(level,
                    Binary(left_expression, operator, right.value,
                           ExpressionMetadataFrom(
                              SourceLocationCombine(LocationOf(left_expression),
                                                    LocationOf(right.value)))),
                    right.tokens)

\* BinaryLoop taking the whole rest of its level as the right operand
BinaryLoop_RightAssociative(level, left_expression, tokens) ==
    IF tokens = <<>> THEN PPanic(<<"peek: index out of bounds">>)
    ELSE IF OperatorAt(level, Head(tokens).value.kind) = NoValue
    THEN POk(left_expression, tokens)
    ELSE BinaryLoopRight(level, left_expression,
                         OperatorAt(level, Head(tokens).value.kind).operator,
                         ParseBinaryExpression(level, Tail(tokens)))

\* the loop of parse_binary_expression, entered with the left operand parsed
BinaryLoop(level, left_expression, tokens) ==
    IF tokens = <<>> THEN PPanic(<<"peek: index out of bounds">>)
    ELSE IF OperatorAt(level, Head(tokens).value.kind) = NoValue
    THEN POk(left_expression, tokens)
    ELSE BinaryLoopRight(level, left_expression,
                         OperatorAt(level, Head(tokens).value.kind).operator,
                         ParseBinaryExpression(level + 1, Tail(tokens)))

\* parse_binary_expression once the left operand is parsed
BinaryLoopEnter(level, left) ==
    IF left.status # "ok" THEN left ELSE BinaryLoop(level, left.value, left.tokens)

ParseBinaryExpression(level, tokens) ==
    IF level >= Len(OperatorPrecedenceLevels) THEN ParsePrefix(tokens)
    ELSE BinaryLoopEnter(level, ParseBinaryExpression(level + 1, tokens))

\* the loop of parse_comparison once the right operand is parsed
ComparisonLoopRight(first, chains, comp, right) ==
    IF right.status # "ok" THEN right
    ELSE ComparisonLoop(first, Append(chains, <<comp, right.value>>), right.tokens)

\* ComparisonLoop wrapping its operand in a chain whatever it collected
ComparisonLoop_AlwaysChain(first, chains, tokens) ==
    IF tokens = <<>> THEN PPanic(<<"peek: index out of bounds">>)
    ELSE IF ComparisonOf(Head(tokens).value.kind) = NoType
    THEN POk(ComparisonChain(first, chains,
                ExpressionMetadataFrom(FoldLocations(LocationOf(first), chains))),
             tokens)
    ELSE ComparisonLoopRight(first, chains, ComparisonOf(Head(tokens).value.kind),
                             ParseBinaryExpression(0, Tail(tokens)))

\* the loop of parse_comparison, with the pairs collected so far, and its end
ComparisonLoop(first, chains, tokens) ==
    IF tokens = <<>> THEN PPanic(<<"peek: index out of bounds">>)
    ELSE IF ComparisonOf(Head(tokens).value.kind) = NoType
    THEN IF chains = <<>> THEN POk(first, tokens)
         ELSE POk(ComparisonChain(first, chains,
                     ExpressionMetadataFrom(FoldLocations(LocationOf(first), chains))),
                  tokens)
    ELSE ComparisonLoopRight(first, chains, ComparisonOf(Head(tokens).value.kind),
                             ParseBinaryExpression(0, Tail(tokens)))

\* parse_comparison once the first operand is parsed
ComparisonLoopEnter(first) ==
    IF first.status # "ok" THEN first
    ELSE ComparisonLoop(first.value, <<>>, first.tokens)

ParseComparison(tokens) == ComparisonLoopEnter(ParseBinaryExpression(0, tokens))

\* the end of parse_print, parse_return and parse_assert
KeywordStatementEnd(node, expression) ==
    IF expression.status # "ok" THEN expression
    ELSE Keep([node |-> node, expression |-> expression.value],
              Expect(expression.tokens, "Semicolon"))

\* parse_print, parse_return and parse_assert: the keyword, an expression, a
\* semicolon; node names the statement built
ParseKeywordStatement(tokens, node) ==
    IF tokens = <<>> THEN PPanic(<<"advance: unwrap on None">>)
    ELSE KeywordStatementEnd(node, ParseExpression(Tail(tokens)))

ParsePrint(tokens) == ParseKeywordStatement(tokens, "Print")
ParseReturn(tokens) == ParseKeywordStatement(tokens, "Return")
ParseAssert(tokens) == ParseKeywordStatement(tokens, "Assert")

AssignmentEnd(name_token, expression) ==
    IF expression.status # "ok" THEN expression
    ELSE Keep(Assignment(name_token.source_location, name_token.value.text,
                         expression.value),
              Expect(expression.tokens, "Semicolon"))

AssignmentValue(name_token, equal) ==
    IF equal.status # "ok" THEN equal
    ELSE AssignmentEnd(name_token, ParseExpression(equal.tokens))

ParseAssignment(tokens) ==
    IF tokens = <<>> THEN PPanic(<<"advance: unwrap on None">>)
    ELSE IF Head(tokens).value.kind # "Identifier" THEN PPanic(<<"unreachable">>)
    ELSE AssignmentValue(Head(tokens), Expect(Tail(tokens), "Equal"))

TestEnd(name, left) ==
    IF left.status # "ok" THEN left
    ELSE Keep(TestStatement(name, left.value), Expect(left.tokens, "Semicolon"))

TestValue(name, arrow) ==
    IF arrow.status # "ok" THEN arrow
    ELSE TestEnd(name, ParseExpression(arrow.tokens))

ParseTest(tokens) ==
    IF tokens = <<>> \/ Tail(tokens) = <<>>
    THEN PPanic(<<"advance: unwrap on None">>)
    ELSE IF Head(Tail(tokens)).value.kind # "String"
    THEN PErr(Head(Tail(tokens)).source_location,
              <<"Expected String for name of test.">>)
    ELSE TestValue(Head(Tail(tokens)).value.text,
                   Expect(Tail(Tail(tokens)), "Arrow"))

RECURSIVE ParseIf(_), ParseStatement(_), ParseCodeblock(_), StatementsLoop(_, _)

\* parse_if once the body after else is parsed: a nested if, or a block
IfEnd(condition, then, otherwise, is_nested_if) ==
    IF otherwise.status # "ok" THEN otherwise
    ELSE POk(IfStatement(condition, then,
                         IF is_nested_if THEN <<otherwise.value>>
                         ELSE otherwise.value),
             otherwise.tokens)

\* parse_if once the then block is parsed
IfOtherwise(condition, then) ==
    IF then.status # "ok" THEN then
    ELSE IF then.tokens = <<>> THEN PPanic(<<"peek: index out of bounds">>)
    ELSE IF Head(then.tokens).value.kind = "Else"
    THEN IF Tail(then.tokens) = <<>> THEN PPanic(<<"peek: index out of bounds">>)
         ELSE IF Head(Tail(then.tokens)).value.kind = "If"
         THEN IfEnd(condition, then.value, ParseIf(Tail(then.tokens)), TRUE)
         ELSE IfEnd(condition, then.value, ParseCodeblock(Tail(then.tokens)), FALSE)
    ELSE POk(IfStatement(condition, then.value, <<>>), then.tokens)

\* parse_if once the condition is parsed
IfThen(condition) ==
    IF condition.status # "ok" THEN condition
    ELSE IfOtherwise(condition.value, ParseCodeblock(condition.tokens))

ParseIf(tokens) ==
    IF tokens = <<>> THEN PPanic(<<"advance: unwrap on None">>)
    ELSE IfThen(ParseExpression(Tail(tokens)))

\* the value is NoValue where parse_statement returns Ok(None)
ParseStatement(tokens) ==
    IF tokens = <<>> THEN PPanic(<<"peek: index out of bounds">>)
    ELSE CASE Head(tokens).value.kind = "Print"      -> ParsePrint(tokens)
           [] Head(tokens).value.kind = "Assert"     -> ParseAssert(tokens)
           [] Head(tokens).value.kind = "Identifier" -> ParseAssignment(tokens)
           [] Head(tokens).value.kind = "Return"     -> ParseReturn(tokens)
           [] Head(tokens).value.kind = "Test"       -> ParseTest(tokens)
           [] Head(tokens).value.kind = "If"         -> ParseIf(tokens)
           [] OTHER                                  -> POk(NoValue, tokens)

\* the while loop of parse_codeblock once parse_statement returned
StatementsLoopPush(statements, statement) ==
    IF statement.status # "ok" THEN statement
    ELSE IF statement.value = NoValue THEN POk(statements, statement.tokens)
    ELSE StatementsLoop(Append(statements, statement.value), statement.tokens)

\* the while loop of parse_codeblock, with the statements pushed so far
StatementsLoop(statements, tokens) ==
    StatementsLoopPush(statements, ParseStatement(tokens))

\* parse_codeblock once the opening bracket is taken
CodeblockOpen(open) ==
    IF open.status # "ok" THEN open
    ELSE ExpectAfter(StatementsLoop(<<>>, open.tokens), "CloseBracket")

ParseCodeblock(tokens) == CodeblockOpen(Expect(tokens, "OpenBracket"))

\* advance, and the Identifier token taken
ExpectName(tokens) ==
    IF tokens = <<>> THEN PPanic(<<"advance: unwrap on None">>)
    ELSE IF Head(tokens).value.kind = "Identifier"
    THEN POk(Head(tokens), Tail(tokens))
    ELSE PErr(Head(tokens).source_location,
              <<"expected name, got", Head(tokens).value.kind>>)

\* advance for a name after a call that gave result
ExpectNameAfter(result) ==
    IF result.status # "ok" THEN result ELSE ExpectName(result.tokens)

\* parse_function_definition once the body is parsed
FunctionEnd(function_name_token, return_type_token, body) ==
    IF body.status # "ok" THEN body
    ELSE POk(FunctionDefinition(function_name_token.value.text, body.value,
                                return_type_token.value.text,
                                return_type_token.source_location),
             body.tokens)

\* parse_function_definition once the return type is taken
FunctionBody(function_name_token, return_type_token) ==
    IF return_type_token.status # "ok" THEN return_type_token
    ELSE FunctionEnd(function_name_token, return_type_token.value,
                     ParseCodeblock(return_type_token.tokens))

\* parse_function_definition once the arrow is taken
FunctionReturnType(function_name_token) ==
    IF function_name_token.status # "ok" THEN function_name_token
    ELSE FunctionBody(function_name_token.value,
                      ExpectName(function_name_token.tokens))

ParseFunctionDefinition(tokens) ==
    FunctionReturnType(
        ExpectAfter(
            ExpectAfter(
                ExpectAfter(ExpectNameAfter(Expect(tokens, "Fn")), "OpenParen"),
                "CloseParen"),
            "Arrow"))

\* the value is NoValue where parse_toplevel_statement returns Ok(None)
ParseToplevelStatement(tokens) ==
    IF tokens = <<>> THEN PPanic(<<"peek: index out of bounds">>)
    ELSE CASE Head(tokens).value.kind = "Fn"        -> ParseFunctionDefinition(tokens)
           [] Head(tokens).value.kind = "EndOfFile" -> POk(NoValue, tokens)
           [] OTHER ->
                PErr(Head(tokens).source_location,
                     <<"expected start of top level definition or end of file, got",
                       Head(tokens).value.kind>>)

RECURSIVE ToplevelLoop(_, _)

\* the while loop of parse_file once parse_toplevel_statement returned
ToplevelLoopPush(statements, statement) ==
    IF statement.status # "ok" THEN statement
    ELSE IF statement.value = NoValue THEN POk(statements, statement.tokens)
    ELSE ToplevelLoop(Append(statements, statement.value), statement.tokens)

\* the while loop of parse_file, with the statements pushed so far
ToplevelLoop(statements, tokens) ==
    ToplevelLoopPush(statements, ParseToplevelStatement(tokens))

\* SyntaxParser::new(tokens).parse_file()
ParserParseFile(tokens) == ToplevelLoop(<<>>, tokens)

(***************************************************************************)
(* types.rs                                                                *)
(***************************************************************************)
TypeNumber == "Number"
TypeBoolean == "Boolean"
TypeString(owned) == IF owned THEN "String(true)" ELSE "String(false)"

IsStringType(type) == type \in {TypeString(TRUE), TypeString(FALSE)}

MarkOwned(type) == IF type = TypeString(FALSE) THEN TypeString(TRUE) ELSE type
MarkBorrowed(type) == IF type = TypeString(TRUE) THEN TypeString(FALSE) ELSE type

SameType(a, b) ==
    \/ a = TypeNumber /\ b = TypeNumber
    \/ a = TypeBoolean /\ b = TypeBoolean
    \/ IsStringType(a) /\ IsStringType(b)

(***************************************************************************)
(* analyzers/mod.rs: the walk of the Analyzer trait.  analyzer names the   *)
(* implementation ("definition", "types"), A is its struct.  A result      *)
(* holds the node as the walk left it and the struct as the walk left it.  *)
(***************************************************************************)
AOk(value, A) ==
    [status |-> "ok", value |-> value, analyzer |-> A, error |-> NoError]
AErr(location, message) ==
    [status |-> "err", value |-> NoValue, analyzer |-> NoValue,
     error |-> CompileError(location, message)]
APanic(message) ==
    [status |-> "panic", value |-> NoValue, analyzer |-> NoValue,
     error |-> [is_err |-> FALSE, location |-> NoLocation, message |-> message]]

DefinitionAnalyzerNew == [name |-> "DefinitionAnalyzer"]

\* return_type: TypeInformation::Number, the temp value
TypeAnalyzerNew == [var_types |-> <<>>, return_type |-> TypeNumber]

\* HashMap::insert
MapInsert(map, key, value) ==
    [k \in DOMAIN map \cup {key} |-> IF k = key THEN value ELSE map[k]]

\* Expression::type_info of a node whose type is set
TypeInfo(expression) == expression.metadata.type_information

WithType(expression, type) ==
    [expression EXCEPT !.metadata.type_information = type]

\* DefinitionAnalyzer::get_type; the variant StringOwned is the owned String
GetType(type_name) ==
    CASE type_name = <<"N", "u", "m">>                -> TypeNumber
      [] type_name = <<"S", "t", "r", "i", "n", "g">> -> TypeString(TRUE)
      [] type_name = <<"B", "o", "o", "l">>           -> TypeBoolean
      [] OTHER                                        -> NoType

\* TypeAnalyzer::analyze_binary, on a node whose operands are analyzed
AnalyzeBinary(A, e) ==
    IF TypeInfo(e.left) = NoType \/ TypeInfo(e.right) = NoType
    THEN APanic(<<"type_info: unwrap on None">>)
    ELSE IF ~SameType(TypeInfo(e.left), TypeInfo(e.right))
    THEN AErr(SourceLocationCombine(LocationOf(e.left), LocationOf(e.right)),
              <<"Expected left and right to have same type, got",
                TypeInfo(e.left), "and", TypeInfo(e.right)>>)
    ELSE IF TypeInfo(e.left) = TypeNumber THEN AOk(WithType(e, TypeNumber), A)
    ELSE IF TypeInfo(e.left) = TypeBoolean
    THEN AErr(SourceLocationCombine(LocationOf(e.left), LocationOf(e.right)),
              <<"Unsupported operator for boolean", e.operator>>)
    ELSE AErr(SourceLocationCombine(LocationOf(e.left), LocationOf(e.right)),
              <<"Unsupported operator for String", e.operator>>)

ValidComparisons(type) ==
    IF type = TypeNumber
    THEN {"Equal", "NotEqual", "GreaterThan", "GreaterThanEqual", "LessThan",
          "LessThanEqual"}
    ELSE {}

\* the for loop of analyze_comparison, from the pair i on
RECURSIVE AnalyzeComparisonLoop(_, _, _)
AnalyzeComparisonLoop(A, e, i) ==
    IF i > Len(e.comparisons) THEN AOk(WithType(e, TypeBoolean), A)
    ELSE IF TypeInfo(e.comparisons[i][2]) = NoType
    THEN APanic(<<"type_info: unwrap on None">>)
    ELSE IF ~SameType(TypeInfo(e.first_element), TypeInfo(e.comparisons[i][2]))
    THEN AErr(SourceLocationCombine(LocationOf(e.first_element),
                                    LocationOf(e.comparisons[i][2])),
              <<"Expected all expression in comparison chain to have same type, got",
                TypeInfo(e.first_element), "and", TypeInfo(e.comparisons[i][2])>>)
    ELSE IF e.comparisons[i][1] \notin ValidComparisons(TypeInfo(e.first_element))
    THEN AErr(e.metadata.location,
              <<"Not a valid comparison for", TypeInfo(e.first_element)>>)
    ELSE AnalyzeComparisonLoop(A, e, i + 1)

\* analyze_comparison without its checks
AnalyzeComparison_Unchecked(A, e) == AOk(WithType(e, TypeBoolean), A)

\* TypeAnalyzer::analyze_comparison, on a node whose operands are analyzed
AnalyzeComparison(A, e) ==
    IF TypeInfo(e.first_element) = NoType
    THEN APanic(<<"type_info: unwrap on None">>)
    ELSE AnalyzeComparisonLoop(A, e, 1)

\* TypeAnalyzer::visit_expression
TypeVisitExpression(A, e) ==
    CASE e.node = "Literal" ->
            AOk(WithType(e, CASE e.literal.type = "Number"  -> TypeNumber
                              [] e.literal.type = "String"  -> TypeString(FALSE)
                              [] e.literal.type = "Boolean" -> TypeBoolean), A)
      [] e.node = "Binary" -> AnalyzeBinary(A, e)
      [] e.node = "ComparisonChain" -> AnalyzeComparison(A, e)
      [] e.node = "Var" ->
            IF e.name \in DOMAIN A.var_types
            THEN AOk(WithType(e, A.var_types[e.name]), A)
            ELSE AErr(e.metadata.location, <<"Name", e.name, "not defined">>)
      [] e.node = "PrefixExpression" ->
            IF TypeInfo(e.expression) = NoType
            THEN APanic(<<"type_info: unwrap on None">>)
            ELSE IF e.op = "Not" /\ TypeInfo(e.expression) = TypeBoolean
            THEN AOk(WithType(e, TypeBoolean), A)
            ELSE AErr(LocationOf(e.expression),
                      <<"Invalid prefix operator for", TypeInfo(e.expression)>>)

\* Analyzer::visit_expression: the default of the trait, or the TypeAnalyzer's
VisitExpression(analyzer, A, e) ==
    IF analyzer = "types" THEN TypeVisitExpression(A, e) ELSE AOk(e, A)

RECURSIVE WalkExpression(_, _, _), WalkComparisons(_, _, _, _)

\* _visit_expression of a Binary once both operands are walked
WalkBinaryNode(analyzer, A, e, left, right) ==
    IF right.status # "ok" THEN right
    ELSE VisitExpression(analyzer, A, [e EXCEPT !.left = left, !.right = right.value])

\* _visit_expression of a Binary once the left operand is walked
WalkBinaryRight(analyzer, A, e, left) ==
    IF left.status # "ok" THEN left
    ELSE WalkBinaryNode(analyzer, A, e, left.value,
                        WalkExpression(analyzer, A, e.right))

\* the for loop of _visit_expression over the pairs once the pair i is walked
WalkComparisonsNext(analyzer, A, e, i, expr) ==
    IF expr.status # "ok" THEN expr
    ELSE WalkComparisons(analyzer, A,
                         [e EXCEPT !.comparisons[i][2] = expr.value], i + 1)

\* the for loop of _visit_expression over the pairs of a chain, from the pair i
WalkComparisons(analyzer, A, e, i) ==
    IF i > Len(e.comparisons) THEN VisitExpression(analyzer, A, e)
    ELSE WalkComparisonsNext(analyzer, A, e, i,
                             WalkExpression(analyzer, A, e.comparisons[i][2]))

\* _visit_expression of a chain once its first element is walked
WalkChainFirst(analyzer, A, e, first) ==
    IF first.status # "ok" THEN first
    ELSE WalkComparisons(analyzer, A, [e EXCEPT !.first_element = first.value], 1)

\* _visit_expression of a prefix expression once its operand is walked
WalkPrefixNode(analyzer, A, e, expression) ==
    IF expression.status # "ok" THEN expression
    ELSE VisitExpression(analyzer, A, [e EXCEPT !.expression = expression.value])

\* _visit_expression calling visit_expression without walking the operands
WalkExpression_SkipsOperands(analyzer, A, e) == VisitExpression(analyzer, A, e)

\* Analyzer::_visit_expression
WalkExpression(analyzer, A, e) ==
    CASE e.node = "Binary" ->
            WalkBinaryRight(analyzer, A, e, WalkExpression(analyzer, A, e.left))
      [] e.node = "ComparisonChain" ->
            WalkChainFirst(analyzer, A, e,
                           WalkExpression(analyzer, A, e.first_element))
      [] e.node = "PrefixExpression" ->
            WalkPrefixNode(analyzer, A, e, WalkExpression(analyzer, A, e.expression))
      [] OTHER -> VisitExpression(analyzer, A, e)

\* visit_stmt with the arm of Assert alone, a Test falling to the arm of Print
TypeVisitStmt_TestUnchecked(A, stmt) ==
    CASE stmt.node \in {"Print", "Test"} -> AOk(stmt, A)
      [] stmt.node = "Assert" ->
            IF TypeInfo(stmt.expression) = NoType
            THEN APanic(<<"type_info: unwrap on None">>)
            ELSE IF TypeInfo(stmt.expression) # TypeBoolean
            THEN AErr(LocationOf(stmt.expression),
                      <<"Expected Boolean, got", TypeInfo(stmt.expression)>>)
            ELSE AOk(stmt, A)
      [] stmt.node = "Assignment" ->
            IF TypeInfo(stmt.expression) = NoType
            THEN APanic(<<"type_info: unwrap on None">>)
            ELSE IF stmt.var_name \notin DOMAIN A.var_types
            THEN AOk(stmt, [A EXCEPT !.var_types =
                               MapInsert(@, stmt.var_name,
                                         MarkBorrowed(TypeInfo(stmt.expression)))])
            ELSE IF TypeInfo(stmt.expression) # A.var_types[stmt.var_name]
            THEN AErr(LocationOf(stmt.expression),
                      <<"expected", A.var_types[stmt.var_name], "but got",
                        TypeInfo(stmt.expression)>>)
            ELSE AOk(stmt, A)
      [] stmt.node = "Return" ->
            IF TypeInfo(stmt.expression) = NoType
            THEN APanic(<<"type_info: unwrap on None">>)
            ELSE IF A.return_type # TypeInfo(stmt.expression)
            THEN AErr(LocationOf(stmt.expression),
                      <<"expected", A.return_type, "got", TypeInfo(stmt.expression)>>)
            ELSE AOk(stmt, A)
      [] stmt.node = "If" ->
            IF TypeInfo(stmt.condition) = NoType
            THEN APanic(<<"type_info: unwrap on None">>)
            ELSE IF ~SameType(TypeInfo(stmt.condition), TypeBoolean)
            THEN AErr(LocationOf(stmt.condition),
                      <<"Expected condition to be bool, got", TypeInfo(stmt.condition)>>)
            ELSE AOk(stmt, A)

\* TypeAnalyzer::visit_stmt
TypeVisitStmt(A, stmt) ==
    CASE stmt.node = "Print" -> AOk(stmt, A)
      [] stmt.node \in {"Assert", "Test"} ->
            IF TypeInfo(stmt.expression) = NoType
            THEN APanic(<<"type_info: unwrap on None">>)
            ELSE IF TypeInfo(stmt.expression) # TypeBoolean
            THEN AErr(LocationOf(stmt.expression),
                      <<"Expected Boolean, got", TypeInfo(stmt.expression)>>)
            ELSE AOk(stmt, A)
      [] stmt.node = "Assignment" ->
            IF TypeInfo(stmt.expression) = NoType
            THEN APanic(<<"type_info: unwrap on None">>)
            ELSE IF stmt.var_name \notin DOMAIN A.var_types
            THEN AOk(stmt, [A EXCEPT !.var_types =
                               MapInsert(@, stmt.var_name,
                                         MarkBorrowed(TypeInfo(stmt.expression)))])
            ELSE IF TypeInfo(stmt.expression) # A.var_types[stmt.var_name]
            THEN AErr(LocationOf(stmt.expression),
                      <<"expected", A.var_types[stmt.var_name], "but got",
                        TypeInfo(stmt.expression)>>)
            ELSE AOk(stmt, A)
      [] stmt.node = "Return" ->
            IF TypeInfo(stmt.expression) = NoType
            THEN APanic(<<"type_info: unwrap on None">>)
            ELSE IF A.return_type # TypeInfo(stmt.expression)
            THEN AErr(LocationOf(stmt.expression),
                      <<"expected", A.return_type, "got", TypeInfo(stmt.expression)>>)
            ELSE AOk(stmt, A)
      [] stmt.node = "If" ->
            IF TypeInfo(stmt.condition) = NoType
            THEN APanic(<<"type_info: unwrap on None">>)
            ELSE IF ~SameType(TypeInfo(stmt.condition), TypeBoolean)
            THEN AErr(LocationOf(stmt.condition),
                      <<"Expected condition to be bool, got", TypeInfo(stmt.condition)>>)
            ELSE AOk(stmt, A)

\* Analyzer::visit_stmt: the default of the trait, or the TypeAnalyzer's
VisitStmt(analyzer, A, stmt) ==
    IF analyzer = "types" THEN TypeVisitStmt(A, stmt) ELSE AOk(stmt, A)

RECURSIVE WalkStmt(_, _, _), WalkCodebody(_, _, _, _)

\* _visit_stmt of a statement of one expression once the expression is walked
WalkStmtNode(analyzer, A, stmt, expr) ==
    IF expr.status # "ok" THEN expr
    ELSE VisitStmt(analyzer, A, [stmt EXCEPT !.expression = expr.value])

\* _visit_stmt of an If once the body after else is walked
WalkIfNode(analyzer, stmt, otherwise) ==
    IF otherwise.status # "ok" THEN otherwise
    ELSE VisitStmt(analyzer, otherwise.analyzer,
                   [stmt EXCEPT !.otherwise = otherwise.value])

\* _visit_stmt of an If once the then body is walked
WalkIfOtherwise(analyzer, stmt, then) ==
    IF then.status # "ok" THEN then
    ELSE WalkIfNode(analyzer, [stmt EXCEPT !.then = then.value],
                    WalkCodebody(analyzer, then.analyzer, <<>>, stmt.otherwise))

\* _visit_stmt of an If once the condition is walked
WalkIfThen(analyzer, A, stmt, condition) ==
    IF condition.status # "ok" THEN condition
    ELSE WalkIfOtherwise(analyzer, [stmt EXCEPT !.condition = condition.value],
                         WalkCodebody(analyzer, A, <<>>, stmt.then))

\* Analyzer::_visit_stmt
WalkStmt(analyzer, A, stmt) ==
    IF stmt.node = "If"
    THEN WalkIfThen(analyzer, A, stmt, WalkExpression(analyzer, A, stmt.condition))
    ELSE WalkStmtNode(analyzer, A, stmt, WalkExpression(analyzer, A, stmt.expression))

\* try_for_each of _visit_codebody once a statement is walked
WalkCodebodyNext(analyzer, done, rest, stmt) ==
    IF stmt.status # "ok" THEN stmt
    ELSE WalkCodebody(analyzer, stmt.analyzer, Append(done, stmt.value), rest)

\* Analyzer::_visit_codebody, with the statements walked so far and the rest
WalkCodebody(analyzer, A, done, rest) ==
    IF rest = <<>> THEN AOk(done, A)
    ELSE WalkCodebodyNext(analyzer, done, Tail(rest),
                          WalkStmt(analyzer, A, Head(rest)))

\* pre_visit_toplevel without self.var_types.clear()
PreVisitToplevel_KeepsVarTypes(analyzer, A, statement) ==
    IF analyzer # "types" THEN AOk(statement, A)
    ELSE IF statement.metadata.return_type = NoType
    THEN APanic(<<"return_type: unwrap on None">>)
    ELSE AOk(statement, [A EXCEPT !.return_type = statement.metadata.return_type])

\* Analyzer::pre_visit_toplevel: the default, or the TypeAnalyzer's
PreVisitToplevel(analyzer, A, statement) ==
    IF analyzer # "types" THEN AOk(statement, A)
    ELSE IF statement.metadata.return_type = NoType
    THEN APanic(<<"return_type: unwrap on None">>)
    ELSE AOk(statement, [A EXCEPT !.var_types = <<>>,
                                  !.return_type = statement.metadata.return_type])

\* visit_toplevel storing what get_type returned, None for an unknown name
VisitToplevel_KeepsUnknown(analyzer, A, statement) ==
    IF analyzer = "types"
    THEN AOk([statement EXCEPT !.metadata.var_types = A.var_types], A)
    ELSE AOk([statement EXCEPT !.metadata.return_type =
                                   GetType(statement.return_type_name)], A)

\* Analyzer::visit_toplevel: the DefinitionAnalyzer's, or the TypeAnalyzer's
VisitToplevel(analyzer, A, statement) ==
    IF analyzer = "types"
    THEN AOk([statement EXCEPT !.metadata.var_types = A.var_types], A)
    ELSE IF GetType(statement.return_type_name) = NoType
    THEN AErr(statement.return_type_location, <<"Invalid type name">>)
    ELSE AOk([statement EXCEPT !.metadata.return_type =
                                   GetType(statement.return_type_name)], A)

\* _visit_toplevel once the body is walked
WalkToplevelNode(analyzer, statement, body) ==
    IF body.status # "ok" THEN body
    ELSE VisitToplevel(analyzer, body.analyzer,
                       [statement EXCEPT !.body = body.value])

\* _visit_toplevel once pre_visit_toplevel returned
WalkToplevelBody(analyzer, statement, pre) ==
    IF pre.status # "ok" THEN pre
    ELSE WalkToplevelNode(analyzer, statement,
                          WalkCodebody(analyzer, pre.analyzer, <<>>, statement.body))

\* Analyzer::_visit_toplevel
WalkToplevel(analyzer, A, statement) ==
    WalkToplevelBody(analyzer, statement, PreVisitToplevel(analyzer, A, statement))

RECURSIVE VisitFile(_, _, _, _)

\* the for loop of visit_file once a statement is walked
VisitFileNext(analyzer, done, rest, statement) ==
    IF statement.status # "ok" THEN statement
    ELSE VisitFile(analyzer, statement.analyzer, Append(done, statement.value), rest)

\* Analyzer::visit_file, with the statements walked so far and the rest
VisitFile(analyzer, A, done, rest) ==
    IF rest = <<>> THEN AOk(done, A)
    ELSE VisitFileNext(analyzer, done, Tail(rest),
                       WalkToplevel(analyzer, A, Head(rest)))

(***************************************************************************)
(* Two's complement arithmetic on 32 bits, as the instructions add, sub,   *)
(* mul and sdiv of the module and the folding of constants compute it.     *)
(***************************************************************************)
MinI32 == -MaxI32 - 1

AddWrap(a, b) ==
    IF b > 0 /\ a > MaxI32 - b THEN (a - MaxI32 - 1) + (b - MaxI32 - 1)
    ELSE IF b < 0 /\ a < MinI32 - b THEN (a + MaxI32 + 1) + (b + MaxI32 + 1)
    ELSE a + b

SubWrap(a, b) ==
    IF b = MinI32 THEN AddWrap(AddWrap(a, MaxI32), 1) ELSE AddWrap(a, -b)

RECURSIVE MulWrap(_, _)
MulWrap(a, b) ==
    IF b = 0 THEN 0
    ELSE IF b = MinI32 THEN (IF a % 2 = 0 THEN 0 ELSE MinI32)
    ELSE IF b < 0 THEN SubWrap(0, MulWrap(a, -b))
    ELSE IF b % 2 = 1 THEN AddWrap(a, MulWrap(AddWrap(a, a), b \div 2))
    ELSE MulWrap(AddWrap(a, a), b \div 2)

\* sdiv has no result for a zero divisor and for the quotient 2^31
SDivDefined(a, b) == b # 0 /\ ~(a = MinI32 /\ b = -1)

\* the quotient rounded toward zero, where sdiv has a result
SDiv(a, b) ==
    IF b = MinI32 THEN (IF a = MinI32 THEN 1 ELSE 0)
    ELSE IF a % (IF b < 0 THEN -b ELSE b) = 0 \/ (a < 0) = (b < 0) THEN a \div b
    ELSE (a \div b) + 1

DigitChar(d) ==
    CASE d = 0 -> "0" [] d = 1 -> "1" [] d = 2 -> "2" [] d = 3 -> "3"
      [] d = 4 -> "4" [] d = 5 -> "5" [] d = 6 -> "6" [] d = 7 -> "7"
      [] d = 8 -> "8" [] d = 9 -> "9"

RECURSIVE DigitsOf(_)
DigitsOf(n) ==
    IF n < 10 THEN <<DigitChar(n)>>
    ELSE Append(DigitsOf(n \div 10), DigitChar(n % 10))

\* the text of a number in base ten, as Display and the conversion %d write it
DecimalText(n) ==
    IF n >= 0 THEN DigitsOf(n)
    ELSE IF n = MinI32 THEN <<"-">> \o DigitsOf(MaxI32 \div 10) \o <<"8">>
    ELSE <<"-">> \o DigitsOf(-n)

(***************************************************************************)
(* llvm_generator.rs: the module that the builder fills.  A value is a     *)
(* constant, the address of a global, the result of an instruction, or     *)
(* poison.  A block is known by its index in the list of the blocks.       *)
(***************************************************************************)
Nul == "U+0000"
Esc == "U+001B"

ConstInt(type, value) == [k |-> "const", type |-> type, value |-> value]
GlobalPointer(index) == [k |-> "global", type |-> "ptr", value |-> index]
Register(type, id) == [k |-> "reg", type |-> type, value |-> id]
Poison(type) == [k |-> "poison", type |-> type, value |-> 0]
NoOperand == [k |-> "none", type |-> "void", value |-> 0]

Instruction(op, what, name, dest, args, targets) ==
    [op |-> op, what |-> what, name |-> name, dest |-> dest, args |-> args,
     targets |-> targets]

\* Context::create_module
ModuleNew(name) ==
    [node |-> "Module", name |-> name, globals |-> <<>>, functions |-> <<>>,
     blocks |-> <<>>]

\* Compiler::new; keys and pointer_keys are the orders in which the HashMaps
\* var_types and var_pointers of this run hand out their keys
CompilerNew(name, keys, pointer_keys, overflow_checks) ==
    [module |-> ModuleNew(name), insert_block |-> 0, next_value |-> 1,
     function_context |-> NoValue, value |-> NoOperand, panic |-> <<>>,
     keys |-> keys, pointer_keys |-> pointer_keys,
     overflow_checks |-> overflow_checks]

Panicked(G) == G.panic # <<>>

\* a panic of the compiler: nothing that follows it runs
Panic(G, message) == IF Panicked(G) THEN G ELSE [G EXCEPT !.panic = message]

WithValue(G, value) == IF Panicked(G) THEN G ELSE [G EXCEPT !.value = value]

\* Module::get_function: the index of the function of that name, or 0
GetFunction(M, name) ==
    IF \E i \in DOMAIN M.functions : M.functions[i].name = name
    THEN CHOOSE i \in DOMAIN M.functions :
            /\ M.functions[i].name = name
            /\ \A j \in DOMAIN M.functions : M.functions[j].name = name => i <= j
    ELSE 0

\* Module::add_function; a name that is taken gets a suffix that makes it new
AddFunction(G, name, return_type, params, var_arg) ==
    IF Panicked(G) THEN G
    ELSE [G EXCEPT !.module.functions =
            Append(@, [name |-> IF GetFunction(G.module, name) = 0 THEN name
                                ELSE name \o <<".">> \o DecimalText(Len(@)),
                       return_type |-> return_type, params |-> params,
                       var_arg |-> var_arg, layout |-> <<>>])]

\* the layout with the block new put right after the block after
InsertAfter(layout, after, new) ==
    IF \E i \in DOMAIN layout : layout[i] = after
    THEN LET i == CHOOSE i \in DOMAIN layout : layout[i] = after
         IN  SubSeq(layout, 1, i) \o <<new>> \o SubSeq(layout, i + 1, Len(layout))
    ELSE Append(layout, new)

\* Context::append_basic_block: the new block is Len(blocks) + 1
AppendBasicBlock(G, function, name) ==
    IF Panicked(G) THEN G
    ELSE [G EXCEPT
            !.module.blocks = Append(@, [name |-> name, function |-> function,
                                         instrs |-> <<>>]),
            !.module.functions[function].layout =
                Append(@, Len(G.module.blocks) + 1)]

\* Context::insert_basic_block_after: the new block is Len(blocks) + 1
InsertBasicBlockAfter(G, after, name) ==
    IF Panicked(G) THEN G
    ELSE IF after = 0 THEN Panic(G, <<"get_insert_block: unwrap on None">>)
    ELSE [G EXCEPT
            !.module.blocks =
                Append(@, [name |-> name, function |-> G.module.blocks[after].function,
                           instrs |-> <<>>]),
            !.module.functions[G.module.blocks[after].function].layout =
                InsertAfter(@, after, Len(G.module.blocks) + 1)]

\* Builder::position_at_end
PositionAtEnd(G, block) ==
    IF Panicked(G) THEN G ELSE [G EXCEPT !.insert_block = block]

\* the builder puts an instruction at the end of its block
Emit(G, instruction) ==
    IF Panicked(G) THEN G
    ELSE IF G.insert_block = 0 THEN Panic(G, <<"builder without a position">>)
    ELSE [G EXCEPT !.module.blocks[G.insert_block].instrs = Append(@, instruction)]

\* an instruction with a result: the result is the value of G
EmitValue(G, op, what, name, type, args) ==
    IF Panicked(G) THEN G
    ELSE WithValue(
            [Emit(G, Instruction(op, what, name, G.next_value, args, <<>>))
                EXCEPT !.next_value = @ + 1],
            Register(type, G.next_value))

\* an instruction without a result
EmitVoid(G, op, what, name, args, targets) ==
    Emit(G, Instruction(op, what, name, 0, args, targets))

\* Builder::build_global_string: the bytes and a terminator; the value of G
\* is the address of the global
BuildGlobalString(G, value, name) ==
    IF Panicked(G) THEN G
    ELSE WithValue([G EXCEPT !.module.globals =
                        Append(@, [name |-> name, bytes |-> Append(value, Nul)])],
                   GlobalPointer(Len(G.module.globals) + 1))

IsConst(value) == value.k = "const"

\* the folding of a binary instruction on two constants
FoldBinary(op, a, b) ==
    CASE op = "add"  -> ConstInt("i32", AddWrap(a, b))
      [] op = "sub"  -> ConstInt("i32", SubWrap(a, b))
      [] op = "mul"  -> ConstInt("i32", MulWrap(a, b))
      [] op = "sdiv" -> IF SDivDefined(a, b) THEN ConstInt("i32", SDiv(a, b))
                        ELSE Poison("i32")

\* build_int_add, build_int_sub, build_int_mul, build_int_signed_div
BuildBinary(G, op, left, right, name) ==
    IF IsConst(left) /\ IsConst(right)
    THEN WithValue(G, FoldBinary(op, left.value, right.value))
    ELSE EmitValue(G, op, "i32", name, "i32", <<left, right>>)

\* the predicates of icmp, on two values of 32 bits
IntPredicate(predicate, a, b) ==
    CASE predicate = "EQ"  -> a = b
      [] predicate = "NE"  -> a # b
      [] predicate = "SGT" -> a > b
      [] predicate = "SGE" -> a >= b
      [] predicate = "SLT" -> a < b
      [] predicate = "SLE" -> a <= b

BoolInt(b) == IF b THEN 1 ELSE 0

\* build_int_compare
BuildIntCompare(G, predicate, left, right, name) ==
    IF IsConst(left) /\ IsConst(right)
    THEN WithValue(G, ConstInt("i1", BoolInt(IntPredicate(predicate, left.value,
                                                          right.value))))
    ELSE EmitValue(G, "icmp", predicate, name, "i1", <<left, right>>)

\* build_and, on two values of one bit
BuildAnd(G, left, right, name) ==
    IF IsConst(left) /\ IsConst(right)
    THEN WithValue(G, ConstInt("i1", left.value * right.value))
    ELSE EmitValue(G, "and", "i1", name, "i1", <<left, right>>)

\* build_not, on a value of one bit: xor with the constant of all ones
BuildNot(G, value, name) ==
    IF IsConst(value) THEN WithValue(G, ConstInt("i1", 1 - value.value))
    ELSE EmitValue(G, "xor", "i1", name, "i1", <<value, ConstInt("i1", 1)>>)

\* build_call of the function of that name with these arguments
BuildCall(G, callee, args, name) ==
    IF Panicked(G) THEN G
    ELSE IF GetFunction(G.module, callee) = 0
    THEN Panic(G, <<"get_function: unwrap on None">>)
    ELSE IF G.module.functions[GetFunction(G.module, callee)].return_type = "void"
    THEN WithValue(EmitVoid(G, "call", callee, name, args, <<>>), NoOperand)
    ELSE EmitValue(G, "call", callee, name,
                   G.module.functions[GetFunction(G.module, callee)].return_type,
                   args)

(***************************************************************************)
(* llvm_generator.rs: the Compiler.  Each function takes the Compiler G    *)
(* and gives it back as the function leaves it; the value a function       *)
(* returns is G.value.                                                     *)
(***************************************************************************)
PrintfName == <<"p", "r", "i", "n", "t", "f">>
MallocName == <<"m", "a", "l", "l", "o", "c">>
ReallocName == <<"r", "e", "a", "l", "l", "o", "c">>
FreeName == <<"f", "r", "e", "e">>
StrlenName == <<"s", "t", "r", "l", "e", "n">>
MemcpyName == <<"m", "e", "m", "c", "p", "y">>
AbortName == <<"a", "b", "o", "r", "t">>

\* the bytes of a char in UTF-8
Utf8Bytes(c) == IF c = NonAsciiLetter THEN <<"0xC3", "0xA9">> ELSE <<c>>

\* the bytes of a str
RECURSIVE StrBytes(_)
StrBytes(s) == IF s = <<>> THEN <<>> ELSE Utf8Bytes(Head(s)) \o StrBytes(Tail(s))

CompileGlibcDefinitions(G) ==
    AddFunction(
      AddFunction(
        AddFunction(
          AddFunction(
            AddFunction(
              AddFunction(
                AddFunction(G, PrintfName, "i32", <<"ptr">>, TRUE),
                MallocName, "ptr", <<"i64">>, FALSE),
              ReallocName, "ptr", <<"ptr", "i64">>, FALSE),
            FreeName, "void", <<"ptr">>, FALSE),
          StrlenName, "i64", <<"ptr">>, FALSE),
        MemcpyName, "ptr", <<"ptr", "ptr", "i64">>, FALSE),
      AbortName, "void", <<>>, FALSE)

GetTypeFor(type) ==
    CASE type = TypeNumber  -> "i32"
      [] type = TypeBoolean -> "i1"
      [] IsStringType(type) -> "ptr"

FreeIfNeeded(G, value, type) ==
    IF type = TypeString(TRUE)
    THEN BuildCall(G, FreeName, <<value>>, <<"Free_Tmp_String">>)
    ELSE G

\* get_owned_string once malloc is called: memcpy is called with two arguments
GetOwnedStringCopy(G, value) ==
    WithValue(BuildCall(G, MemcpyName, <<G.value, value>>, <<"Malloc">>), G.value)

\* get_owned_string once strlen is called
GetOwnedStringAllocate(G, value) ==
    GetOwnedStringCopy(BuildCall(G, MallocName, <<G.value>>, <<"Heap_Pointer">>), value)

GetOwnedString(G, value) ==
    GetOwnedStringAllocate(BuildCall(G, StrlenName, <<value>>, <<"String_Len">>), value)

CompileLiteral(G, lit) ==
    CASE lit.type = "Number"  -> WithValue(G, ConstInt("i32", lit.value))
      [] lit.type = "String"  ->
            BuildGlobalString(G, StrBytes(lit.value), "Literal_String")
      [] lit.type = "Boolean" -> WithValue(G, ConstInt("i1", BoolInt(lit.value)))

OperatorInstruction(operator) ==
    CASE operator = "Add" -> <<"add", <<"Number_Add">>>>
      [] operator = "Sub" -> <<"sub", <<"Number_Sub">>>>
      [] operator = "Mul" -> <<"mul", <<"Number_Mul">>>>
      [] operator = "Div" -> <<"sdiv", <<"Number_Div">>>>

ComparisonPredicate(comp) ==
    CASE comp = "Equal"            -> "EQ"
      [] comp = "NotEqual"         -> "NE"
      [] comp = "GreaterThan"      -> "SGT"
      [] comp = "GreaterThanEqual" -> "SGE"
      [] comp = "LessThan"         -> "SLT"
      [] comp = "LessThanEqual"    -> "SLE"

\* into_int_value, on the value a compile_expression returned
IsIntValue(value) == value.type \in {"i32", "i1", "i64"}

RECURSIVE CompileExpression(_, _), CompileChainLoop(_, _, _, _, _),
          ReduceAnd(_, _, _), ReduceAndNext(_, _)

\* the Binary arm of compile_expression once both operands are compiled
CompileBinaryEnd(G, e, left_value) ==
    IF Panicked(G) THEN G
    ELSE IF ~IsIntValue(G.value) THEN Panic(G, <<"into_int_value">>)
    ELSE IF TypeInfo(e.left) = NoType THEN Panic(G, <<"type_info: unwrap on None">>)
    ELSE IF TypeInfo(e.left) # TypeNumber THEN Panic(G, <<"unreachable">>)
    ELSE BuildBinary(G, OperatorInstruction(e.operator)[1], left_value, G.value,
                     OperatorInstruction(e.operator)[2])

\* the Binary arm of compile_expression once the left operand is compiled
CompileBinaryRight(G, e) ==
    IF Panicked(G) THEN G
    ELSE IF ~IsIntValue(G.value) THEN Panic(G, <<"into_int_value">>)
    ELSE CompileBinaryEnd(CompileExpression(G, e.right), e, G.value)

\* the reduce over bool_values, with the value reduced so far
ReduceAnd(G, left, rest) ==
    IF rest = <<>> THEN WithValue(G, left)
    ELSE ReduceAndNext(BuildAnd(G, left, Head(rest), <<"Comparison_Chain_And">>),
                       Tail(rest))

ReduceAndNext(G, rest) == ReduceAnd(G, G.value, rest)

\* the end of the ComparisonChain arm: reduce, and unwrap
CompileChainEnd(G, bool_values) ==
    IF bool_values = <<>> THEN Panic(G, <<"reduce: unwrap on None">>)
    ELSE ReduceAnd(G, Head(bool_values), Tail(bool_values))

\* CompileChainPush keeping the last comparison only
CompileChainPush_DropsEarlier(G, e, right, i, bool_values) ==
    CompileChainLoop(G, e, right, i + 1, <<G.value>>)

\* a turn of the while loop once the comparison is built
CompileChainPush(G, e, right, i, bool_values) ==
    CompileChainLoop(G, e, right, i + 1, Append(bool_values, G.value))

\* a turn of the while loop once the right operand is compiled
CompileChainCompare(G, e, left, i, bool_values) ==
    IF Panicked(G) THEN G
    ELSE IF TypeInfo(e.first_element) = NoType
    THEN Panic(G, <<"type_info: unwrap on None">>)
    ELSE IF TypeInfo(e.first_element) # TypeNumber THEN Panic(G, <<"unreachable">>)
    ELSE IF ~IsIntValue(left) \/ ~IsIntValue(G.value)
    THEN Panic(G, <<"into_int_value">>)
    ELSE CompileChainPush(
            BuildIntCompare(G, ComparisonPredicate(e.comparisons[i][1]), left,
                            G.value, <<"Comparison_Chain">>),
            e, G.value, i, bool_values)

\* the while loop of the ComparisonChain arm, before the pair i
CompileChainLoop(G, e, left, i, bool_values) ==
    IF Panicked(G) THEN G
    ELSE IF i > Len(e.comparisons) THEN CompileChainEnd(G, bool_values)
    ELSE CompileChainCompare(CompileExpression(G, e.comparisons[i][2]), e, left, i,
                             bool_values)

\* the ComparisonChain arm once the first element is compiled
CompileChainFirst(G, e) == CompileChainLoop(G, e, G.value, 1, <<>>)

\* the Var arm of compile_expression
CompileVar(G, e) ==
    IF Panicked(G) THEN G
    ELSE IF G.function_context = NoValue
    THEN Panic(G, <<"function_context: unwrap on None">>)
    ELSE IF e.name \notin DOMAIN G.function_context.var_pointers
    THEN Panic(G, <<"var_pointers.get: unwrap on None">>)
    ELSE IF TypeInfo(e) = NoType THEN Panic(G, <<"type_info: unwrap on None">>)
    ELSE EmitValue(G, "load", GetTypeFor(TypeInfo(e)), <<"Var_Load">>,
                   GetTypeFor(TypeInfo(e)),
                   <<G.function_context.var_pointers[e.name]>>)

\* the PrefixExpression arm once the operand is compiled
CompilePrefixEnd(G, e) ==
    IF Panicked(G) THEN G
    ELSE IF TypeInfo(e.expression) = NoType
    THEN Panic(G, <<"type_info: unwrap on None">>)
    ELSE IF TypeInfo(e.expression) # TypeBoolean THEN Panic(G, <<"unreachable">>)
    ELSE BuildNot(G, G.value, <<"Not">>)

CompileExpression(G, exp) ==
    IF Panicked(G) THEN G
    ELSE CASE exp.node = "Literal" -> CompileLiteral(G, exp.literal)
           [] exp.node = "Binary" ->
                CompileBinaryRight(CompileExpression(G, exp.left), exp)
           [] exp.node = "ComparisonChain" ->
                CompileChainFirst(CompileExpression(G, exp.first_element), exp)
           [] exp.node = "Var" -> CompileVar(G, exp)
           [] exp.node = "PrefixExpression" ->
                CompilePrefixEnd(CompileExpression(G, exp.expression), exp)

\* compile_printf once the format string is a global: the pointer cast adds
\* no instruction
CompilePrintfCall(G, value) ==
    BuildCall(G, PrintfName, <<G.value, value>>, <<"Print_Statement">>)

CompilePrintf(G, format_string, value) ==
    IF Panicked(G) THEN G
    ELSE IF GetFunction(G.module, PrintfName) = 0
    THEN Panic(G, <<"get_function: unwrap on None">>)
    ELSE CompilePrintfCall(
            BuildGlobalString(G, format_string, "Print_Format_String"), value)

CompilePrintNumber(G, value) == CompilePrintf(G, <<"%", "d", "\n">>, value)

CompilePrintString(G, type, value) ==
    FreeIfNeeded(CompilePrintf(G, <<"%", "s", "\n">>, value), value, type)

BuildConditionalBranch(G, condition, then, else) ==
    EmitVoid(G, "br", "i1", <<>>, <<condition>>, <<then, else>>)

BuildUnconditionalBranch(G, target) ==
    EmitVoid(G, "br", "", <<>>, <<>>, <<target>>)

\* the arm of compile_print_bool that prints word, placed at its block
CompilePrintBoolArmPrint(G) == CompilePrintf(G, <<"%", "s", "\n">>, G.value)

CompilePrintBoolArm(G, branch, word, name, continue_branch) ==
    BuildUnconditionalBranch(
        CompilePrintBoolArmPrint(
            BuildGlobalString(PositionAtEnd(G, branch), word, name)),
        continue_branch)

\* compile_print_bool once its three blocks exist; true_branch is the first
CompilePrintBoolJump(G, value, true_branch) ==
    IF Panicked(G) THEN G
    ELSE IF ~IsIntValue(value) THEN Panic(G, <<"into_int_value">>)
    ELSE PositionAtEnd(
            CompilePrintBoolArm(
                CompilePrintBoolArm(
                    BuildConditionalBranch(G, value, true_branch, true_branch + 1),
                    true_branch, <<"t", "r", "u", "e">>, "True_String",
                    true_branch + 2),
                true_branch + 1, <<"f", "a", "l", "s", "e">>, "False_String",
                true_branch + 2),
            true_branch + 2)

CompilePrintBool(G, value) ==
    IF Panicked(G) THEN G
    ELSE CompilePrintBoolJump(
            InsertBasicBlockAfter(
                InsertBasicBlockAfter(
                    InsertBasicBlockAfter(G, G.insert_block, <<"True_Branch">>),
                    Len(G.module.blocks) + 1, <<"False_Branch">>),
                Len(G.module.blocks) + 2, <<"Continue_Branch">>),
            value, Len(G.module.blocks) + 1)

\* compile_print once the expression is compiled
CompilePrintValue(G, expression) ==
    IF Panicked(G) THEN G
    ELSE IF TypeInfo(expression) = NoType
    THEN Panic(G, <<"type_info: unwrap on None">>)
    ELSE CASE TypeInfo(expression) = TypeNumber  -> CompilePrintNumber(G, G.value)
           [] TypeInfo(expression) = TypeBoolean -> CompilePrintBool(G, G.value)
           [] OTHER -> CompilePrintString(G, TypeInfo(expression), G.value)

CompilePrint(G, expression) ==
    CompilePrintValue(CompileExpression(G, expression), expression)

BuildStore(G, pointer, value) ==
    EmitVoid(G, "store", "", <<>>, <<pointer, value>>, <<>>)

\* var_pointers.insert(name, pointer)
InsertPointer(G, name, pointer) ==
    IF Panicked(G) THEN G
    ELSE [G EXCEPT !.function_context.var_pointers = MapInsert(@, name, pointer)]

\* the keys of a HashMap, in the order that the map hands them out
RECURSIVE KeysOf(_, _)
KeysOf(map, order) ==
    IF order = <<>> THEN <<>>
    ELSE IF Head(order) \in DOMAIN map
    THEN <<Head(order)>> \o KeysOf(map, Tail(order))
    ELSE KeysOf(map, Tail(order))

\* the String arm of compile_var_allocations once malloc is called
AllocateStringStore(G, name, stack_pointer) ==
    InsertPointer(BuildStore(G, stack_pointer, G.value), name, stack_pointer)

\* the String arm of compile_var_allocations once the slot is allocated
AllocateStringHeap(G, name) ==
    AllocateStringStore(
        BuildCall(G, MallocName, <<ConstInt("i64", 0)>>, <<"Heap_Pointer">>),
        name, G.value)

\* a Number or Boolean arm of compile_var_allocations once the slot is allocated
AllocateSlot(G, name) == InsertPointer(G, name, G.value)

\* one turn of the for loop of compile_var_allocations
AllocateVar(G, name) ==
    IF Panicked(G) THEN G
    ELSE CASE G.function_context.var_types[name] = TypeNumber ->
                AllocateSlot(EmitValue(G, "alloca", "i32", <<"Stack_Pointer">>, "ptr", <<>>),
                             name)
           [] G.function_context.var_types[name] = TypeBoolean ->
                AllocateSlot(EmitValue(G, "alloca", "i1", <<"Stack_Pointer">>, "ptr", <<>>),
                             name)
           [] OTHER ->
                AllocateStringHeap(
                    EmitValue(G, "alloca", "ptr", <<"Stack_Pointer">>, "ptr", <<>>), name)

RECURSIVE AllocateVars(_, _)
AllocateVars(G, names) ==
    IF names = <<>> THEN G
    ELSE AllocateVars(AllocateVar(G, Head(names)), Tail(names))

CompileVarAllocations(G) ==
    IF Panicked(G) THEN G
    ELSE IF G.function_context = NoValue
    THEN Panic(G, <<"function_context: unwrap on None">>)
    ELSE AllocateVars(G, KeysOf(G.function_context.var_types, G.keys))

\* the String(false) arm of compile_assignment once realloc is called
AssignBorrowedCopy(G, pointer, expr_value, string_length) ==
    BuildStore(
        BuildCall(G, MemcpyName, <<G.value, expr_value, string_length>>, <<"Memcpy">>),
        pointer, G.value)

\* the String(false) arm of compile_assignment once strlen is called
AssignBorrowedGrow(G, pointer, existing_heap_pointer, expr_value) ==
    AssignBorrowedCopy(
        BuildCall(G, ReallocName, <<existing_heap_pointer, G.value>>, <<"Heap_Pointer">>),
        pointer, expr_value, G.value)

\* the String arm of compile_assignment once the existing pointer is loaded;
\* the pointer cast of expr_value adds no instruction
AssignString(G, pointer, expr, expr_value) ==
    IF Panicked(G) THEN G
    ELSE IF expr_value.type # "ptr" THEN Panic(G, <<"into_pointer_value">>)
    ELSE IF TypeInfo(expr) = TypeString(TRUE)
    THEN BuildStore(BuildCall(G, FreeName, <<G.value>>, <<"Free_String">>),
                    pointer, expr_value)
    ELSE IF TypeInfo(expr) = TypeString(FALSE)
    THEN AssignBorrowedGrow(
            BuildCall(G, StrlenName, <<expr_value>>, <<"String_Length">>),
            pointer, G.value, expr_value)
    ELSE Panic(G, <<"unreachable: Should always be string type">>)

\* compile_assignment once the expression is compiled
AssignValue(G, type, pointer, expr) ==
    IF Panicked(G) THEN G
    ELSE IF type \in {TypeNumber, TypeBoolean} THEN BuildStore(G, pointer, G.value)
    ELSE AssignString(EmitValue(G, "load", "ptr", <<"Existing_String">>, "ptr", <<pointer>>),
                      pointer, expr, G.value)

CompileAssignment(G, name, expr) ==
    IF Panicked(G) THEN G
    ELSE IF G.function_context = NoValue
    THEN Panic(G, <<"function_context: unwrap on None">>)
    ELSE IF name \notin DOMAIN G.function_context.var_types
    THEN Panic(G, <<"var_types.get: unwrap on None">>)
    ELSE IF name \notin DOMAIN G.function_context.var_pointers
    THEN Panic(G, <<"var_pointers.get: unwrap on None">>)
    ELSE AssignValue(CompileExpression(G, expr),
                     G.function_context.var_types[name],
                     G.function_context.var_pointers[name], expr)

\* the String arm of free_used_vars once the pointer is loaded
FreeUsedVarCall(G) == BuildCall(G, FreeName, <<G.value>>, <<"Free_String">>)

\* one turn of the for loop of free_used_vars
FreeUsedVar(G, name) ==
    IF Panicked(G) THEN G
    ELSE IF name \notin DOMAIN G.function_context.var_types
    THEN Panic(G, <<"var_types.get: unwrap on None">>)
    ELSE IF ~IsStringType(G.function_context.var_types[name]) THEN G
    ELSE FreeUsedVarCall(
            EmitValue(G, "load", "ptr", <<"HeapPointer">>, "ptr",
                      <<G.function_context.var_pointers[name]>>))

RECURSIVE FreeVars(_, _)
FreeVars(G, names) ==
    IF names = <<>> THEN G
    ELSE FreeVars(FreeUsedVar(G, Head(names)), Tail(names))

\* free_used_vars without its for loop
FreeUsedVars_FreesNothing(G) == G

FreeUsedVars(G) ==
    IF Panicked(G) THEN G
    ELSE IF G.function_context = NoValue
    THEN Panic(G, <<"function_context: unwrap on None">>)
    ELSE IF GetFunction(G.module, FreeName) = 0
    THEN Panic(G, <<"get_function: unwrap on None">>)
    ELSE FreeVars(G, KeysOf(G.function_context.var_pointers, G.pointer_keys))

BuildReturn(G) == EmitVoid(G, "ret", G.value.type, <<>>, <<G.value>>, <<>>)

\* compile_return once the expression is compiled
CompileReturnValue(G, expr) ==
    IF Panicked(G) THEN G
    ELSE IF TypeInfo(expr) = TypeString(FALSE)
    THEN BuildReturn(GetOwnedString(G, G.value))
    ELSE BuildReturn(G)

\* compile_return once the variables are freed
CompileReturnExpression(G, expr) ==
    IF Panicked(G) THEN G
    ELSE IF TypeInfo(expr) = NoType THEN Panic(G, <<"type_info: unwrap on None">>)
    ELSE CompileReturnValue(CompileExpression(G, expr), expr)

CompileReturn(G, expr) == CompileReturnExpression(FreeUsedVars(G), expr)

\* the text of a str literal of the compiler
AssertOnLine == <<"A", "s", "s", "e", "r", "t", " ", "o", "n", " ", "l", "i", "n", "e", " ">>
FailedText == <<" ", "f", "a", "i", "l", "e", "d">>
FormatS == <<"%", "s", "\n">>

\* printf of a message under the format, then abort, then unreachable; the
\* format is the global format_string, the message is G.value
CrashAndBurn(G, format_string, printf_name, abort_name) ==
    EmitVoid(
        BuildCall(
            BuildCall(G, PrintfName, <<format_string, G.value>>, printf_name),
            AbortName, <<>>, abort_name),
        "unreachable", "", <<>>, <<>>, <<>>)

\* compile_assert once the format string is a global
CompileAssertMessage(G, line_num, success_block) ==
    PositionAtEnd(
        CrashAndBurn(
            BuildGlobalString(G, AssertOnLine \o line_num \o FailedText,
                              "Assert_Msg_String"),
            G.value, <<"Assert_Printf">>, line_num \o <<"L_Assert_Abort_Call">>),
        success_block)

\* compile_assert once its two blocks exist; abort_block is the first
CompileAssertJump(G, expr_value, line_num, abort_block) ==
    CompileAssertMessage(
        BuildGlobalString(
            PositionAtEnd(
                BuildConditionalBranch(G, expr_value, abort_block + 1, abort_block),
                abort_block),
            FormatS, "Assert_Msg_Format_String"),
        line_num, abort_block + 1)

\* compile_assert once the expression is compiled
CompileAssertBlocks(G, line_num) ==
    IF Panicked(G) THEN G
    ELSE IF ~IsIntValue(G.value) THEN Panic(G, <<"into_int_value">>)
    ELSE CompileAssertJump(
            InsertBasicBlockAfter(
                InsertBasicBlockAfter(G, G.insert_block,
                                      line_num \o <<"L_Assert_Abort">>),
                Len(G.module.blocks) + 1, line_num \o <<"L_Assert_Success">>),
            G.value, line_num, Len(G.module.blocks) + 1)

CompileAssert(G, expr) ==
    IF Panicked(G) THEN G
    ELSE IF GetFunction(G.module, AbortName) = 0 \/ GetFunction(G.module, PrintfName) = 0
    THEN Panic(G, <<"get_function: unwrap on None">>)
    ELSE CompileAssertBlocks(CompileExpression(G, expr),
                             DecimalText(LocationOf(expr).line_start))

RECURSIVE Spaces(_)
Spaces(n) == IF n = 0 THEN <<>> ELSE Append(Spaces(n - 1), " ")

\* the name that compile_test prints: the test name, the padding, the file name
TestLabel(name, file_name) ==
    <<Esc, "[", "3", "6", "m">> \o StrBytes(name) \o Spaces(20 - (3 + StrLen(name)))
        \o <<Esc, "[", "3", "3", "m">> \o StrBytes(file_name) \o <<Esc, "[", "0", "m">>

FailedLabel(label) ==
    <<Esc, "[", "3", "1", "m", "F", "A", "I", "L", "E", "D", " ">> \o label
        \o <<Esc, "[", "0", "m">>

OkLabel(label) ==
    <<Esc, "[", "3", "2", "m", "O", "K", " ">> \o label \o <<Esc, "[", "0", "m">>

\* compile_test on the success branch: the message, and its printf
CompileTestOkPrint(G, format_string) ==
    BuildCall(G, PrintfName, <<format_string, G.value>>, <<"Test_Ok_Printf">>)

\* compile_test once the format string is a global
CompileTestMessages(G, label, line_num, format_string, fail_block) ==
    CompileTestOkPrint(
        BuildGlobalString(
            PositionAtEnd(
                CrashAndBurn(
                    BuildGlobalString(PositionAtEnd(G, fail_block), FailedLabel(label),
                                      "Test_Fail_String"),
                    format_string, <<"Test_Fail_Printf">>,
                    line_num \o <<"L_Test_Abort_Call">>),
                fail_block + 1),
            OkLabel(label), "Test_Ok_String"),
        format_string)

\* compile_test once the conditional branch is built
CompileTestFormat(G, label, line_num, fail_block) ==
    CompileTestMessages(G, label, line_num, G.value, fail_block)

\* compile_test once its two blocks exist; fail_block is the first
CompileTestJump(G, expr_value, label, line_num, fail_block) ==
    CompileTestFormat(
        BuildGlobalString(
            BuildConditionalBranch(G, expr_value, fail_block + 1, fail_block),
            FormatS, "Test_Msg_Format_String"),
        label, line_num, fail_block)

\* compile_test once the expression is compiled
CompileTestBlocks(G, label, line_num) ==
    IF Panicked(G) THEN G
    ELSE IF ~IsIntValue(G.value) THEN Panic(G, <<"into_int_value">>)
    ELSE CompileTestJump(
            InsertBasicBlockAfter(
                InsertBasicBlockAfter(G, G.insert_block, line_num \o <<"L_Test_Fail">>),
                Len(G.module.blocks) + 1, line_num \o <<"L_Test_Ok">>),
            G.value, label, line_num, Len(G.module.blocks) + 1)

\* the padding 20 - (3 + name.len()) is a usize: below zero the subtraction
\* panics where overflow is checked, and wraps to a length that repeat
\* cannot allocate where it is not
CompileTest(G, name, expr) ==
    IF Panicked(G) THEN G
    ELSE IF 3 + StrLen(name) > 20
    THEN Panic(G, IF G.overflow_checks THEN <<"attempt to subtract with overflow">>
                  ELSE <<"capacity overflow">>)
    ELSE IF GetFunction(G.module, AbortName) = 0 \/ GetFunction(G.module, PrintfName) = 0
    THEN Panic(G, <<"get_function: unwrap on None">>)
    ELSE CompileTestBlocks(CompileExpression(G, expr),
                           TestLabel(name, G.module.name),
                           DecimalText(LocationOf(expr).line_start))

RECURSIVE CompileStatement(_, _), CompileCodeblock(_, _)

\* compile_if once the else body is compiled
CompileIfEnd(G, continue_block) ==
    PositionAtEnd(BuildUnconditionalBranch(G, continue_block), continue_block)

\* compile_if once the then body is compiled
CompileIfOtherwise(G, otherwise, true_case) ==
    CompileIfEnd(
        CompileCodeblock(
            PositionAtEnd(BuildUnconditionalBranch(G, true_case + 2), true_case + 1),
            otherwise),
        true_case + 2)

\* compile_if once the condition is compiled
CompileIfThen(G, then, otherwise, true_case) ==
    IF Panicked(G) THEN G
    ELSE IF ~IsIntValue(G.value) THEN Panic(G, <<"into_int_value">>)
    ELSE CompileIfOtherwise(
            CompileCodeblock(
                PositionAtEnd(
                    BuildConditionalBranch(G, G.value, true_case, true_case + 1),
                    true_case),
                then),
            otherwise, true_case)

CompileIf(G, condition, then, otherwise) ==
    IF Panicked(G) THEN G
    ELSE CompileIfThen(
            CompileExpression(
                InsertBasicBlockAfter(
                    InsertBasicBlockAfter(
                        InsertBasicBlockAfter(G, G.insert_block, <<"True_Case">>),
                        Len(G.module.blocks) + 1, <<"False_Case">>),
                    Len(G.module.blocks) + 2, <<"Continue">>),
                condition),
            then, otherwise, Len(G.module.blocks) + 1)

CompileStatement(G, stmt) ==
    CASE stmt.node = "Print"      -> CompilePrint(G, stmt.expression)
      [] stmt.node = "Assert"     -> CompileAssert(G, stmt.expression)
      [] stmt.node = "Assignment" -> CompileAssignment(G, stmt.var_name, stmt.expression)
      [] stmt.node = "Return"     -> CompileReturn(G, stmt.expression)
      [] stmt.node = "Test"       -> CompileTest(G, stmt.name, stmt.expression)
      [] stmt.node = "If"         ->
            CompileIf(G, stmt.condition, stmt.then, stmt.otherwise)

CompileCodeblock(G, code) ==
    IF code = <<>> \/ Panicked(G) THEN G
    ELSE CompileCodeblock(CompileStatement(G, Head(code)), Tail(code))

CompileFunctionDefinition(G, name, meta) ==
    IF meta.return_type = NoType THEN Panic(G, <<"return_type: unwrap on None">>)
    ELSE AddFunction(G, name, GetTypeFor(meta.return_type), <<>>, FALSE)

\* compile_function once the entry block is appended
CompileFunctionBody(G, code, meta) ==
    IF Panicked(G) THEN G
    ELSE CompileCodeblock(
            CompileVarAllocations(
                [PositionAtEnd(G, Len(G.module.blocks))
                    EXCEPT !.function_context =
                        [var_types |-> meta.var_types, var_pointers |-> <<>>]]),
            code)

CompileFunction(G, name, code, meta) ==
    IF Panicked(G) THEN G
    ELSE IF GetFunction(G.module, name) = 0
    THEN Panic(G, <<"get_function: unwrap on None">>)
    ELSE CompileFunctionBody(
            AppendBasicBlock(G, GetFunction(G.module, name), <<"entry">>), code, meta)

CompileToplevelStatement(G, stmt) ==
    CompileFunction(G, stmt.function_name, stmt.body, stmt.metadata)

\* the first for loop of compile_code
RECURSIVE CompileDefinitions(_, _)
CompileDefinitions(G, code) ==
    IF code = <<>> THEN G
    ELSE CompileDefinitions(
            CompileFunctionDefinition(G, Head(code).function_name, Head(code).metadata),
            Tail(code))

\* the second for loop of compile_code
RECURSIVE CompileToplevels(_, _)
CompileToplevels(G, code) ==
    IF code = <<>> THEN G
    ELSE CompileToplevels(CompileToplevelStatement(G, Head(code)), Tail(code))

\* fpm.run_on: the passes keep what the defined runs of the module do; the
\* module keeps the instructions that the builder gave it
RunPasses(G) == G

CompileCode(G, code, optimize) ==
    IF optimize
    THEN RunPasses(CompileToplevels(CompileDefinitions(CompileGlibcDefinitions(G), code),
                                    code))
    ELSE CompileToplevels(CompileDefinitions(CompileGlibcDefinitions(G), code), code)

(***************************************************************************)
(* lib.rs: compile_to_obj and compile_to_exe.  llc takes a module that is  *)
(* well formed, and the linker needs a definition of main.                 *)
(***************************************************************************)
MainName == <<"m", "a", "i", "n">>

IsTerminator(instruction) == instruction.op \in {"br", "ret", "unreachable"}

\* a block ends with a terminator, and holds no other
BlockWellFormed(block) ==
    /\ block.instrs # <<>>
    /\ \A i \in DOMAIN block.instrs :
          IsTerminator(block.instrs[i]) <=> i = Len(block.instrs)

\* a call passes the arguments that the type of the function asks for
CallWellFormed(M, instruction) ==
    /\ GetFunction(M, instruction.what) # 0
    /\ IF M.functions[GetFunction(M, instruction.what)].var_arg
       THEN Len(instruction.args) >=
                Len(M.functions[GetFunction(M, instruction.what)].params)
       ELSE Len(instruction.args) =
                Len(M.functions[GetFunction(M, instruction.what)].params)
    /\ \A i \in DOMAIN M.functions[GetFunction(M, instruction.what)].params :
          instruction.args[i].type =
              M.functions[GetFunction(M, instruction.what)].params[i]

InstructionWellFormed(M, block, instruction) ==
    CASE instruction.op = "call" -> CallWellFormed(M, instruction)
      [] instruction.op = "ret"  ->
            instruction.what = M.functions[block.function].return_type
      [] OTHER -> TRUE

ModuleWellFormed(M) ==
    \A b \in DOMAIN M.blocks :
        /\ BlockWellFormed(M.blocks[b])
        /\ \A i \in DOMAIN M.blocks[b].instrs :
              InstructionWellFormed(M, M.blocks[b], M.blocks[b].instrs[i])

HasMain(M) ==
    /\ GetFunction(M, MainName) # 0
    /\ M.functions[GetFunction(M, MainName)].layout # <<>>

(***************************************************************************)
(* lib.rs: run_exe.  The process that runs main of the module: its         *)
(* registers, its memory as a list of objects, and what it printed.        *)
(* Object i is global i; the allocations follow.                           *)
(***************************************************************************)
IntV(n) == [t |-> "int", v |-> n, obj |-> 0]
PtrV(obj) == [t |-> "ptr", v |-> 0, obj |-> obj]
UndefV == [t |-> "undef", v |-> 0, obj |-> 0]
NullV == PtrV(0)

\* a byte of memory that no store has written
Junk == "?"

MemGlobal(bytes) == [kind |-> "global", live |-> TRUE, bytes |-> bytes, cell |-> UndefV]
MemStack == [kind |-> "stack", live |-> TRUE, bytes |-> <<>>, cell |-> UndefV]
MemHeap(bytes) == [kind |-> "heap", live |-> TRUE, bytes |-> bytes, cell |-> UndefV]

MachineOff ==
    [status |-> "off", block |-> 0, index |-> 0, regs |-> <<>>, memory |-> <<>>,
     stdout |-> <<>>, exit_code |-> 0, ub |-> FALSE, trace |-> <<>>]

\* the process at the first instruction of main
MachineStart(M) ==
    [MachineOff EXCEPT
        !.status = "run",
        !.block = M.functions[GetFunction(M, MainName)].layout[1],
        !.index = 1,
        !.memory = [g \in DOMAIN M.globals |-> MemGlobal(M.globals[g].bytes)]]

\* the instruction that the process is at
Current(M, m) == M.blocks[m.block].instrs[m.index]

\* the value of an operand
Operand(m, value) ==
    CASE value.k = "const"  -> IntV(value.value)
      [] value.k = "global" -> PtrV(value.value)
      [] value.k = "reg"    -> m.regs[value.value]
      [] OTHER              -> UndefV

Arg(M, m, i) == Operand(m, Current(M, m).args[i])

\* the process past its instruction, with the result of the instruction
StepOver(M, m, result) ==
    [m EXCEPT !.index = @ + 1,
              !.regs = IF Current(M, m).dest = 0 THEN @
                       ELSE MapInsert(@, Current(M, m).dest, result),
              !.trace = Append(@, Current(M, m).name)]

\* the process ended by a signal.  printf keeps what it prints in the buffer
\* of stdout: a terminal gets the lines as they end, a pipe or a file gets
\* the buffer at exit, and nothing where a signal ends the process
Ended(M, m, status) ==
    {[mm EXCEPT !.status = status, !.trace = Append(@, Current(M, m).name)] :
        mm \in {m, [m EXCEPT !.stdout = <<>>]}}

\* the process stopped where C defines no outcome
Faults(M, m) == Ended(M, [m EXCEPT !.ub = TRUE], "fault")

Write(m, bytes) == [m EXCEPT !.stdout = @ \o bytes]

\* the bytes of object from offset 1 up to, and without, the first byte that
\* is a terminator or was never written
RECURSIVE Prefix(_, _)
Prefix(bytes, i) ==
    IF i > Len(bytes) \/ bytes[i] \in {Nul, Junk} THEN <<>>
    ELSE <<bytes[i]>> \o Prefix(bytes, i + 1)

\* pointer is the address of a string: a live object with a terminator
\* that no unwritten byte precedes
IsCString(m, pointer) ==
    /\ pointer.t = "ptr"
    /\ pointer.obj \in DOMAIN m.memory
    /\ m.memory[pointer.obj].live
    /\ m.memory[pointer.obj].kind \in {"global", "heap"}
    /\ Len(Prefix(m.memory[pointer.obj].bytes, 1)) < Len(m.memory[pointer.obj].bytes)
    /\ m.memory[pointer.obj].bytes[Len(Prefix(m.memory[pointer.obj].bytes, 1)) + 1] = Nul

\* pointer is the address of an object that may be read at all
IsReadable(m, pointer) ==
    /\ pointer.t = "ptr"
    /\ pointer.obj \in DOMAIN m.memory
    /\ m.memory[pointer.obj].live
    /\ m.memory[pointer.obj].kind \in {"global", "heap"}

CString(m, pointer) == Prefix(m.memory[pointer.obj].bytes, 1)

\* the bytes that a read past the end of an object may meet before a zero
Overread == {<<>>, <<Junk>>}

NullText == <<"(", "n", "u", "l", "l", ")">>

\* the result of add, sub, mul, sdiv, icmp, and, xor on two values
Compute(instruction, a, b) ==
    IF a.t # "int" \/ b.t # "int" THEN UndefV
    ELSE CASE instruction.op = "add"  -> IntV(AddWrap(a.v, b.v))
           [] instruction.op = "sub"  -> IntV(SubWrap(a.v, b.v))
           [] instruction.op = "mul"  -> IntV(MulWrap(a.v, b.v))
           [] instruction.op = "sdiv" -> IntV(SDiv(a.v, b.v))
           [] instruction.op = "icmp" ->
                IntV(BoolInt(IntPredicate(instruction.what, a.v, b.v)))
           [] instruction.op = "and"  -> IntV(a.v * b.v)
           [] instruction.op = "xor"  -> IntV((a.v + b.v) % 2)

\* a division without a result stops the process
ArithmeticOutcomes(M, m) ==
    IF /\ Current(M, m).op = "sdiv"
       /\ Arg(M, m, 1).t = "int"
       /\ Arg(M, m, 2).t = "int"
       /\ ~SDivDefined(Arg(M, m, 1).v, Arg(M, m, 2).v)
    THEN Faults(M, m)
    ELSE {StepOver(M, m, Compute(Current(M, m), Arg(M, m, 1), Arg(M, m, 2)))}

AllocaStep(M, m) ==
    StepOver(M, [m EXCEPT !.memory = Append(@, MemStack)], PtrV(Len(m.memory) + 1))

LoadStep(M, m) == StepOver(M, m, m.memory[Arg(M, m, 1).obj].cell)

StoreStep(M, m) ==
    StepOver(M, [m EXCEPT !.memory[Arg(M, m, 1).obj].cell = Arg(M, m, 2)], UndefV)

\* the process at the first instruction of a block
Jump(M, m, target) ==
    [m EXCEPT !.block = target, !.index = 1,
              !.trace = Append(@, Current(M, m).name)]

\* br on a condition that is poison, and unreachable, have no defined outcome
BranchOutcomes(M, m) ==
    IF Current(M, m).op = "unreachable" THEN Faults(M, m)
    ELSE IF Current(M, m).args = <<>> THEN {Jump(M, m, Current(M, m).targets[1])}
    ELSE IF Arg(M, m, 1).t # "int"
    THEN {[Jump(M, m, Current(M, m).targets[i]) EXCEPT !.ub = TRUE] : i \in {1, 2}}
    ELSE IF Arg(M, m, 1).v = 1 THEN {Jump(M, m, Current(M, m).targets[1])}
    ELSE {Jump(M, m, Current(M, m).targets[2])}

\* the status that the parent of the process reads: the low byte
ExitCode(value) == IF value.t = "int" THEN value.v % 256 ELSE 0

\* ret in main: the process exits with what main returns
ReturnStep(M, m) ==
    [m EXCEPT !.status = "exit", !.exit_code = ExitCode(Arg(M, m, 1)),
                     !.ub = @ \/ Arg(M, m, 1).t # "int",
                     !.trace = Append(@, Current(M, m).name)]

\* the conversion of a format: the byte after the first percent sign
RECURSIVE Conversion(_)
Conversion(format) ==
    IF Len(format) < 2 THEN ""
    ELSE IF Head(format) = "%" THEN format[2]
    ELSE Conversion(Tail(format))

\* the format with its conversion replaced by text
RECURSIVE FormatText(_, _)
FormatText(format, text) ==
    IF format = <<>> THEN <<>>
    ELSE IF Head(format) = "%" /\ Len(format) >= 2
    THEN text \o FormatText(Tail(Tail(format)), <<>>)
    ELSE <<Head(format)>> \o FormatText(Tail(format), text)

\* what the conversion writes for the argument, where C defines it
ArgDefined(m, conversion, arg) ==
    \/ conversion = "d" /\ arg.t = "int"
    \/ conversion = "s" /\ IsCString(m, arg)

ArgText(m, conversion, arg) ==
    IF conversion = "d" THEN DecimalText(arg.v) ELSE CString(m, arg)

\* what the conversion may write where C does not define it: a number that
\* is poison, a null pointer, a string without a terminator
ArgTextsUndefined(m, conversion, arg) ==
    IF conversion = "d" THEN {DecimalText(0), DecimalText(1)}
    ELSE IF arg = NullV THEN {NullText}
    ELSE IF arg.t = "ptr" /\ arg.obj \in DOMAIN m.memory
    THEN {CString(m, arg) \o junk : junk \in Overread}
    ELSE {<<>>}

PrintfWrite(M, m, text) ==
    StepOver(M, Write(m, FormatText(CString(m, Arg(M, m, 1)), text)),
             IntV(Len(FormatText(CString(m, Arg(M, m, 1)), text))))

PrintfOutcomes(M, m) ==
    IF ArgDefined(m, Conversion(CString(m, Arg(M, m, 1))), Arg(M, m, 2))
    THEN {PrintfWrite(M, m, ArgText(m, Conversion(CString(m, Arg(M, m, 1))),
                                    Arg(M, m, 2)))}
    ELSE Faults(M, m) \cup
         {[PrintfWrite(M, m, text) EXCEPT !.ub = TRUE] :
            text \in ArgTextsUndefined(m, Conversion(CString(m, Arg(M, m, 1))),
                                       Arg(M, m, 2))}

\* n bytes that no store has written
RECURSIVE Unwritten(_)
Unwritten(n) == IF n <= 0 THEN <<>> ELSE Append(Unwritten(n - 1), Junk)

\* malloc(0) returns a null pointer or the address of an object of no bytes
AllocateOutcomes(M, m, size) ==
    IF size.t # "int" THEN Faults(M, m)
    ELSE {StepOver(M, [m EXCEPT !.memory = Append(@, MemHeap(Unwritten(size.v)))],
                   PtrV(Len(m.memory) + 1))}
         \cup (IF size.v = 0 THEN {StepOver(M, m, NullV)} ELSE {})

MallocOutcomes(M, m) == AllocateOutcomes(M, m, Arg(M, m, 1))

IsLiveHeap(m, pointer) ==
    /\ pointer.t = "ptr"
    /\ pointer.obj \in DOMAIN m.memory
    /\ m.memory[pointer.obj].kind = "heap"
    /\ m.memory[pointer.obj].live

\* the first n bytes of the old object, and unwritten bytes where it is shorter
Resized(bytes, n) ==
    SubSeq(bytes, 1, Min(n, Len(bytes))) \o Unwritten(n - Len(bytes))

Release(m, pointer) == [m EXCEPT !.memory[pointer.obj].live = FALSE]

\* realloc moves the bytes to a new object and releases the old one;
\* realloc(p, 0) releases p and returns as malloc(0) does
ReallocOutcomes(M, m) ==
    IF Arg(M, m, 1) = NullV THEN AllocateOutcomes(M, m, Arg(M, m, 2))
    ELSE IF ~IsLiveHeap(m, Arg(M, m, 1)) \/ Arg(M, m, 2).t # "int" THEN Faults(M, m)
    ELSE {StepOver(M, [Release(m, Arg(M, m, 1)) EXCEPT !.memory =
                          Append(@, MemHeap(Resized(m.memory[Arg(M, m, 1).obj].bytes,
                                                    Arg(M, m, 2).v)))],
                   PtrV(Len(m.memory) + 1))}
         \cup (IF Arg(M, m, 2).v = 0
               THEN {StepOver(M, Release(m, Arg(M, m, 1)), NullV)} ELSE {})

\* free of what is not the address of a live allocation has no defined outcome
FreeOutcomes(M, m) ==
    IF Arg(M, m, 1) = NullV THEN {StepOver(M, m, UndefV)}
    ELSE IF IsLiveHeap(m, Arg(M, m, 1))
    THEN {StepOver(M, Release(m, Arg(M, m, 1)), UndefV)}
    ELSE Faults(M, m) \cup {[StepOver(M, m, UndefV) EXCEPT !.ub = TRUE]}

StrlenOutcomes(M, m) ==
    IF IsCString(m, Arg(M, m, 1))
    THEN {StepOver(M, m, IntV(Len(CString(m, Arg(M, m, 1)))))}
    ELSE Faults(M, m) \cup
         (IF Arg(M, m, 1).t = "ptr" /\ Arg(M, m, 1).obj \in DOMAIN m.memory
          THEN {[StepOver(M, m, IntV(Len(CString(m, Arg(M, m, 1)) \o junk)))
                    EXCEPT !.ub = TRUE] : junk \in Overread}
          ELSE {})

\* the first n bytes of from over the first n bytes of to
Copied(to, from, n) == SubSeq(from, 1, n) \o SubSeq(to, n + 1, Len(to))

\* memcpy of n bytes within the bounds of both objects; of no byte; or
\* with no defined outcome
MemcpyOutcomes(M, m) ==
    IF Arg(M, m, 3).t # "int" THEN Faults(M, m)
    ELSE IF /\ IsLiveHeap(m, Arg(M, m, 1))
            /\ IsReadable(m, Arg(M, m, 2))
            /\ Arg(M, m, 3).v <= Len(m.memory[Arg(M, m, 1).obj].bytes)
            /\ Arg(M, m, 3).v <= Len(m.memory[Arg(M, m, 2).obj].bytes)
    THEN {StepOver(M, [m EXCEPT !.memory[Arg(M, m, 1).obj].bytes =
                          Copied(@, m.memory[Arg(M, m, 2).obj].bytes, Arg(M, m, 3).v)],
                   Arg(M, m, 1))}
    ELSE IF Arg(M, m, 3).v = 0
    THEN {[StepOver(M, m, Arg(M, m, 1)) EXCEPT !.ub = TRUE]}
    ELSE Faults(M, m)

\* abort ends the process by a signal
AbortOutcomes(M, m) == Ended(M, m, "abort")

(***************************************************************************)
(* lib.rs: compile_to_ir.  pc is the stage about to run, or "ok", "err",   *)
(* "panic" once compile_to_ir is over; "idle" where it was not called.     *)
(***************************************************************************)
CompilerAt(pc) ==
    [pc |-> pc, ast |-> <<>>, error |-> NoError, module |-> NoValue,
     output |-> NoValue]

CompilerIdle == CompilerAt("idle")

\* the question mark on a stage's result: the error is what compile_to_ir returns
Failed(C, result) ==
    IF result.status = "err" THEN [C EXCEPT !.pc = "err", !.error = result.error]
    ELSE [C EXCEPT !.pc = "panic", !.error = result.error]

(***************************************************************************)
(* Bounds and the inputs of the lexer.                                     *)
(***************************************************************************)
MaxPieces == 3

Pieces ==
    { <<" ">>, <<"\n">>, <<";">>, <<"-">>, <<">">>, <<"/">>, <<"=">>, <<"!">>,
      <<"1">>, <<"x">>, <<"_">>, <<"#">>, <<Quote>>, <<NonAsciiLetter>>,
      <<Quote, "x", Quote>>, <<Quote, NonAsciiLetter, Quote>>,
      <<"i", "f">>, <<"e", "l", "s", "e">>, <<"i", "s">>, <<"f", "n">>,
      <<"p", "r", "i", "n", "t">>, <<"t", "e", "s", "t">> }

\* the pieces of a choice, one after the other
RECURSIVE Concat(_)
Concat(ps) == IF ps = <<>> THEN <<>> ELSE Head(ps) \o Concat(Tail(ps))

(***************************************************************************)
(* The lexer as a state machine.                                           *)
(***************************************************************************)
Init ==
    /\ \E n \in 0..MaxPieces : \E ps \in [1..n -> Pieces] : source = Concat(ps)
    /\ lexer = LexerNew(source)
    /\ returned = NotReturned
    /\ compiler = CompilerIdle
    /\ machine = MachineOff

\* parse_file up to its loop: the first eat_whitespace
EnterParseFile ==
    /\ lexer.pc = "new"
    /\ lexer' = [EatWhitespace(lexer) EXCEPT !.pc = "loop"]
    /\ UNCHANGED <<source, returned, compiler, machine>>

\* one turn of the loop of parse_file, under either build
Turn ==
    /\ lexer.pc = "loop"
    /\ \E overflow_checks \in BOOLEAN :
          lexer' = ParseFileStep(lexer, overflow_checks)
    /\ returned' = ReturnOf(lexer')
    /\ UNCHANGED <<source, compiler, machine>>

LexSymbolTurn ==
    /\ Peek(lexer) \in DOMAIN SingleCharTokens
    /\ Turn

LexOneOrTwoTurn ==
    /\ Peek(lexer) \in {"-", "=", ">", "<"}
    /\ Turn

LexSlashTurn ==
    /\ Peek(lexer) = "/"
    /\ Turn

LexBangTurn ==
    /\ Peek(lexer) = "!"
    /\ Turn

LexNumberTurn ==
    /\ IsAsciiDigit(Peek(lexer))
    /\ Turn

LexStringTurn ==
    /\ Peek(lexer) = Quote
    /\ Turn

LexIdentifierTurn ==
    /\ IsIdentifierChar(Peek(lexer))
    /\ Turn

LexInvalidTurn ==
    /\ Peek(lexer) = "#"
    /\ Turn

LexEndTurn ==
    /\ Peek(lexer) = None
    /\ Turn

Next ==
    \/ EnterParseFile
    \/ LexSymbolTurn
    \/ LexOneOrTwoTurn
    \/ LexSlashTurn
    \/ LexBangTurn
    \/ LexNumberTurn
    \/ LexStringTurn
    \/ LexIdentifierTurn
    \/ LexInvalidTurn
    \/ LexEndTurn

Spec == Init /\ [][Next]_vars

(***************************************************************************)
(* Properties of the lexer.                                                *)
(***************************************************************************)
EndOfFileAt(tokens) == {i \in DOMAIN tokens : tokens[i].value.kind = "EndOfFile"}

\* C1: when parse_file succeeds, the returned token list holds exactly one
\* EndOfFile token, and it is the last element.
C1_EndOfFileOnceAndLast ==
    returned.kind = "ok" =>
        /\ returned.tokens # <<>>
        /\ EndOfFileAt(returned.tokens) = {Len(returned.tokens)}

\* a source of three tokens or more was lexed with success
C1_Witness ==
    /\ returned.kind = "ok"
    /\ Len(returned.tokens) >= 4

\* by the rules of the language, no token starts with c
StartsNoToken(c) ==
    /\ c # None
    /\ c \notin {";", "+", "*", ",", "(", ")", "{", "}", "-", "/", "=", ">", "<", "!", Quote}
    /\ ~IsAsciiDigit(c)
    /\ ~IsAlphabetic(c)
    /\ c # "_"
    /\ ~IsWhitespace(c)

\* code starts with a quote that no quote closes before the next newline
\* or the end of the input
StartsUnclosedString(code) ==
    /\ code # <<>>
    /\ code[1] = Quote
    /\ ~\E j \in 2..Len(code) :
            /\ code[j] = Quote
            /\ \A k \in 2..(j - 1) : code[k] # "\n"

\* C2: when the lexer meets a character that starts no token, or a string
\* literal that is not closed before the next newline or the end of input,
\* parse_file stops there and returns an error: no token list is returned
\* and no EndOfFile token is emitted.
C2_ErrorStopsLexer ==
    [][ ( /\ lexer.pc = "loop"
          /\ \/ StartsNoToken(Peek(lexer))
             \/ StartsUnclosedString(lexer.code) )
        => ( /\ lexer'.pc = "err"
             /\ returned'.kind = "err"
             /\ returned'.error.is_err
             /\ returned'.tokens = <<>>
             /\ EndOfFileAt(lexer'.tokens) = {} ) ]_vars

\* an unclosed string made parse_file return its error
C2_Witness ==
    /\ returned.kind = "err"
    /\ returned.error.message = <<"Unclosed String">>
    /\ lexer.tokens # <<>>

\* the token the turn appended, when it appended exactly one
Appended(before, after, value) ==
    /\ Len(after) = Len(before) + 1
    /\ SubSeq(after, 1, Len(before)) = before
    /\ after[Len(after)].value = value

\* C3: a ! that is not immediately followed by = is tokenized as a Bang
\* token and the character after it is left to start the next token; != is
\* tokenized as BangEqual.
C3_BareBangIsBang ==
    [][ ( /\ lexer.pc = "loop"
          /\ Peek(lexer) = "!" )
        => IF Len(lexer.code) >= 2 /\ lexer.code[2] = "="
           THEN Appended(lexer.tokens, lexer'.tokens, TokenValue("BangEqual"))
           ELSE /\ Appended(lexer.tokens, lexer'.tokens, TokenValue("Bang"))
                /\ lexer'.code = EatWhitespace([lexer EXCEPT !.code = Tail(@)]).code
      ]_vars

\* the keyword table of the language
Keywords ==
    [w \in { <<"p", "r", "i", "n", "t">>, <<"a", "s", "s", "e", "r", "t">>,
             <<"t", "e", "s", "t">>, <<"f", "n">>,
             <<"r", "e", "t", "u", "r", "n">>, <<"t", "r", "u", "e">>,
             <<"f", "a", "l", "s", "e">>, <<"i", "f">>, <<"e", "l", "s", "e">> } |->
        CASE w = <<"p", "r", "i", "n", "t">> -> "Print"
          [] w = <<"a", "s", "s", "e", "r", "t">> -> "Assert"
          [] w = <<"t", "e", "s", "t">> -> "Test"
          [] w = <<"f", "n">> -> "Fn"
          [] w = <<"r", "e", "t", "u", "r", "n">> -> "Return"
          [] w = <<"t", "r", "u", "e">> -> "True"
          [] w = <<"f", "a", "l", "s", "e">> -> "False"
          [] w = <<"i", "f">> -> "If"
          [] w = <<"e", "l", "s", "e">> -> "Else"]

\* the maximal run of letters and underscores that code starts with
LeadingWord(code) ==
    SubSeq(code, 1, PrefixLen(code, "is_identifier"))

\* C4: for every maximal run of letters and underscores the lexer emits
\* the keyword token when the word is one of print, assert, test, fn,
\* return, true, false, if, else, and Identifier(word) for any other word.
C4_KeywordTable ==
    [][ ( /\ lexer.pc = "loop"
          /\ LeadingWord(lexer.code) # <<>> )
        => LET word == LeadingWord(lexer.code)
           IN  Appended(lexer.tokens, lexer'.tokens,
                        IF word \in DOMAIN Keywords
                        THEN TokenValue(Keywords[word])
                        ELSE TokenValueOf("Identifier", word))
      ]_vars

\* the lines of a source text, as str::lines splits it
RECURSIVE Lines(_)
Lines(text) ==
    LET n == PrefixLen(text, "is_line")
    IN  IF n = Len(text) THEN <<text>>
        ELSE <<SubSeq(text, 1, n)>> \o Lines(SubSeq(text, n + 2, Len(text)))

\* the source characters a token of the given kind is written with
LexemeOf(value) ==
    CASE value.kind = "String"     -> <<Quote>> \o value.text \o <<Quote>>
      [] value.kind = "Number"     -> value.text
      [] value.kind = "Identifier" -> value.text
      [] value.kind = "Print"      -> <<"p", "r", "i", "n", "t">>
      [] value.kind = "Assert"     -> <<"a", "s", "s", "e", "r", "t">>
      [] value.kind = "Test"       -> <<"t", "e", "s", "t">>
      [] value.kind = "Fn"         -> <<"f", "n">>
      [] value.kind = "Return"     -> <<"r", "e", "t", "u", "r", "n">>
      [] value.kind = "True"       -> <<"t", "r", "u", "e">>
      [] value.kind = "False"      -> <<"f", "a", "l", "s", "e">>
      [] value.kind = "Is"         -> <<"i", "s">>
      [] value.kind = "Semicolon"  -> <<";">>
      [] value.kind = "Plus"       -> <<"+">>
      [] value.kind = "Minus"      -> <<"-">>
      [] value.kind = "Star"       -> <<"*">>
      [] value.kind = "ForwardSlash" -> <<"/">>
      [] value.kind = "Comma"      -> <<",">>
      [] value.kind = "Equal"      -> <<"=">>
      [] value.kind = "EqualEqual" -> <<"=", "=">>
      [] value.kind = "BangEqual"  -> <<"!", "=">>
      [] value.kind = "LessThan"   -> <<"<">>
      [] value.kind = "LessThanEqual" -> <<"<", "=">>
      [] value.kind = "GreaterThan" -> <<">">>
      [] value.kind = "GreaterThanEqual" -> <<">", "=">>
      [] value.kind = "OpenParen"  -> <<"(">>
      [] value.kind = "CloseParen" -> <<")">>
      [] value.kind = "OpenBracket" -> <<"{">>
      [] value.kind = "CloseBracket" -> <<"}">>
      [] value.kind = "Arrow"      -> <<"-", ">">>

\* the span is on one line of the text and covers exactly the characters
\* the token is written with, columns counted from 1 in characters
SpanCovers(text, token) ==
    LET loc == token.source_location
    IN  /\ loc.line_start = loc.line_end
        /\ loc.line_start \in 1..Len(Lines(text))
        /\ 1 <= loc.char_start
        /\ loc.char_start <= loc.char_end
        /\ loc.char_end <= Len(Lines(text)[loc.line_start])
        /\ SubSeq(Lines(text)[loc.line_start], loc.char_start, loc.char_end)
               = LexemeOf(token.value)

\* C5: every token the lexer emits carries the line it occurs on and the
\* 1-based character columns of its first and last source character; for
\* a String token the span runs from the opening to the closing quote.
C5_TokenSpans ==
    \A i \in DOMAIN lexer.tokens :
        lexer.tokens[i].value.kind # "EndOfFile" => SpanCovers(source, lexer.tokens[i])

\* C5 for the sources written in ASCII only
C5_TokenSpansAscii ==
    (\A i \in DOMAIN source : source[i] # NonAsciiLetter) => C5_TokenSpans

(***************************************************************************)
(* compile_to_ir on a function that prints one expression: the stages of   *)
(* parser::parse_file.                                                     *)
(***************************************************************************)
MaxOperators == 2

\* fn f()->Num{print EXPRESSION;}
PrintPrefix ==
    <<"f", "n", " ", "f", "(", ")", "-", ">", "N", "u", "m", "{",
      "p", "r", "i", "n", "t", " ">>
PrintSuffix == <<";", "}">>

ExprAtoms == { <<"1">>, <<"x">>, <<"(", "2", "-", "x", ")">> }

ExprOperators ==
    { <<"+">>, <<"-">>, <<"*">>, <<"/">>, <<"=", "=">>, <<"!", "=">>,
      <<"<">>, <<"<", "=">>, <<">">>, <<">", "=">> }

\* atoms[1] ops[1] atoms[2] ... ops[k] atoms[k + 1]
RECURSIVE Interleave(_, _, _)
Interleave(atoms, ops, i) ==
    IF i > Len(ops) THEN atoms[i]
    ELSE atoms[i] \o ops[i] \o Interleave(atoms, ops, i + 1)

InitParser ==
    /\ \E k \in 0..MaxOperators :
         \E atoms \in [1..(k + 1) -> ExprAtoms], ops \in [1..k -> ExprOperators] :
            source = PrintPrefix \o Interleave(atoms, ops, 1) \o PrintSuffix
    /\ lexer = LexerNew(source)
    /\ returned = NotReturned
    /\ compiler = CompilerAt("lexer")
    /\ machine = MachineOff

\* parser::parse_file: Lexer::new(code) and lexer.parse_file()?
CompileLexer ==
    /\ compiler.pc = "lexer"
    /\ \E overflow_checks \in BOOLEAN :
          lexer' = RunLexer([EatWhitespace(LexerNew(source)) EXCEPT !.pc = "loop"],
                            overflow_checks)
    /\ returned' = ReturnOf(lexer')
    /\ compiler' = CASE returned'.kind = "ok"  -> [compiler EXCEPT !.pc = "parser"]
                     [] returned'.kind = "err" ->
                            [compiler EXCEPT !.pc = "err", !.error = returned'.error]
                     [] OTHER -> [compiler EXCEPT !.pc = "panic"]
    /\ UNCHANGED <<source, machine>>

\* compile_to_ir once parser::parse_file returned
Parsed(C, file) ==
    IF file.status = "ok" THEN [C EXCEPT !.pc = "definition", !.ast = file.value]
    ELSE Failed(C, file)

\* parser::parse_file: SyntaxParser::new(tokens) and parser.parse_file()
CompileParser ==
    /\ compiler.pc = "parser"
    /\ compiler' = Parsed(compiler, ParserParseFile(returned.tokens))
    /\ UNCHANGED <<source, lexer, returned, machine>>

ParserNext == CompileLexer \/ CompileParser

SpecParser == InitParser /\ [][ParserNext]_vars

(***************************************************************************)
(* compile_to_ir, compile_to_obj, compile_to_exe and run_exe as a state    *)
(* machine: main.rs, run.                                                  *)
(***************************************************************************)
MaxStatements == 2
MaxComparisons == 2

\* the input file: the name of the module
InputFile == <<"a", ".", "v", "i", "v">>

MainNum ==
    <<"f", "n", " ", "m", "a", "i", "n", "(", ")", " ", "-", ">", " ", "N",
      "u", "m", " ", "{", "\n">>

MainInt ==
    <<"f", "n", " ", "m", "a", "i", "n", "(", ")", " ", "-", ">", " ", "I",
      "n", "t", " ", "{", "\n">>

ReturnZero ==
    <<"r", "e", "t", "u", "r", "n", " ", "0", ";", "\n", "}", "\n">>

\* the statements of the programs, each on a line of its own
Statements ==
    { <<"p", "r", "i", "n", "t", " ", "-", "7", ";", "\n">>,
      <<"p", "r", "i", "n", "t", " ", Quote, "h", "i", Quote, ";", "\n">>,
      <<"p", "r", "i", "n", "t", " ", "t", "r", "u", "e", ";", "\n">>,
      <<"x", " ", "=", " ", Quote, "h", "i", Quote, ";", "\n">>,
      <<"p", "r", "i", "n", "t", " ", "x", ";", "\n">>,
      <<"n", " ", "=", " ", "3", ";", "\n">>,
      <<"p", "r", "i", "n", "t", " ", "n", " ", "*", " ", "2", " ", "<", " ", "7", ";", "\n">>,
      <<"a", "s", "s", "e", "r", "t", " ", "1", " ", "=", "=", " ", "2", ";", "\n">>,
      <<"p", "r", "i", "n", "t", " ", "#", ";", "\n">>,
      <<"p", "r", "i", "n", "t", " ", ";", "\n">>,
      <<"p", "r", "i", "n", "t", " ", "y", ";", "\n">>,
      <<"t", "e", "s", "t", " ", Quote, "t", Quote, " ", "-", ">", " ", "1", " ", "=", "=", " ", "1", ";", "\n">> }

ChainPrefix ==
    <<"f", "n", " ", "m", "a", "i", "n", "(", ")", " ", "-", ">", " ", "N",
      "u", "m", " ", "{", "\n", "x", " ", "=", " ", "2", ";", "\n", "p", "r",
      "i", "n", "t", " ">>

ChainSuffix ==
    <<";", "\n", "r", "e", "t", "u", "r", "n", " ", "0", ";", "\n", "}", "\n">>

ChainOperands == {<<"x">>, <<"1">>}

ChainOperators ==
    {<<"=", "=">>, <<"!", "=">>, <<"<">>, <<"<", "=">>, <<">">>, <<">", "=">>}

\* a function main of MaxStatements statements at most and a return, or a
\* function main that prints a chain of MaxComparisons comparisons at most
Programs ==
    { header \o Concat(ps) \o ReturnZero :
        header \in {MainNum, MainInt},
        ps \in UNION {[1..n -> Statements] : n \in 0..MaxStatements} }
    \cup
    UNION { { ChainPrefix \o Interleave(operands, ops, 1) \o ChainSuffix :
                operands \in [1..(k + 1) -> ChainOperands],
                ops \in [1..k -> ChainOperators] } : k \in 1..MaxComparisons }

InitCompile ==
    /\ source \in Programs
    /\ lexer = LexerNew(source)
    /\ returned = NotReturned
    /\ compiler = CompilerAt("lexer")
    /\ machine = MachineOff

\* Analyzed going on to the next stage whatever the pass returned
Analyzed_KeepsGoing(C, file, next) ==
    IF file.status = "ok" THEN [C EXCEPT !.pc = next, !.ast = file.value]
    ELSE [C EXCEPT !.pc = next]

\* compile_to_ir once a pass of apply_analyzer returned; next is what follows
Analyzed(C, file, next) ==
    IF file.status = "ok" THEN [C EXCEPT !.pc = next, !.ast = file.value]
    ELSE Failed(C, file)

\* apply_analyzer: definition_analyzer.visit_file(code)?
CompileDefinitionPass ==
    /\ compiler.pc = "definition"
    /\ compiler' = Analyzed(compiler,
                            VisitFile("definition", DefinitionAnalyzerNew, <<>>,
                                      compiler.ast),
                            "types")
    /\ UNCHANGED <<source, lexer, returned, machine>>

\* apply_analyzer: type_analyzer.visit_file(code)?
CompileTypePass ==
    /\ compiler.pc = "types"
    /\ compiler' = Analyzed(compiler,
                            VisitFile("types", TypeAnalyzerNew, <<>>, compiler.ast),
                            "new")
    /\ UNCHANGED <<source, lexer, returned, machine>>

\* compile_to_ir: create_context and Compiler::new(name, &ctx)
CompileNewCompiler ==
    /\ compiler.pc = "new"
    /\ compiler' = [compiler EXCEPT !.pc = "generate", !.module = ModuleNew(InputFile)]
    /\ UNCHANGED <<source, lexer, returned, machine>>

\* the names of the variables of the functions of a file
VarNames(file) == UNION {DOMAIN file[i].metadata.var_types : i \in DOMAIN file}

\* the orders in which a HashMap may hand out these keys
Orders(names) ==
    {order \in [1..Cardinality(names) -> names] :
        \A i, j \in DOMAIN order : order[i] = order[j] => i = j}

\* compile_to_ir once compile_code returned
Generated(C, G) ==
    IF Panicked(G)
    THEN [C EXCEPT !.pc = "panic",
                   !.error = [is_err |-> FALSE, location |-> NoLocation,
                              message |-> G.panic]]
    ELSE [C EXCEPT !.pc = "save", !.module = G.module]

\* compile_to_ir: compiler.compile_code(ast, optimize), under either build
CompileGenerate ==
    /\ compiler.pc = "generate"
    /\ \E optimize, overflow_checks \in BOOLEAN :
       \E keys, pointer_keys \in Orders(VarNames(compiler.ast)) :
          compiler' = Generated(compiler,
                                CompileCode(CompilerNew(InputFile, keys, pointer_keys,
                                                        overflow_checks),
                                            compiler.ast, optimize))
    /\ UNCHANGED <<source, lexer, returned, machine>>

\* compile_to_ir: compiler.save_in(output), and Ok(())
CompileSaveIn ==
    /\ compiler.pc = "save"
    /\ compiler' = [compiler EXCEPT !.pc = "ok", !.output = compiler.module]
    /\ UNCHANGED <<source, lexer, returned, machine>>

\* build: llc and the linker on the file that compile_to_ir wrote, and
\* run: run_exe on the executable
BuildAndRun ==
    /\ compiler.pc = "ok"
    /\ machine.status = "off"
    /\ machine' = IF ModuleWellFormed(compiler.output) /\ HasMain(compiler.output)
                  THEN MachineStart(compiler.output)
                  ELSE [MachineOff EXCEPT !.status = "build failed"]
    /\ UNCHANGED <<source, lexer, returned, compiler>>

\* the process is at an instruction of these
At(ops) ==
    /\ machine.status = "run"
    /\ Current(compiler.output, machine).op \in ops

\* the process is at a call of the function of that name
AtCall(name) ==
    /\ At({"call"})
    /\ Current(compiler.output, machine).what = name

ExecArithmetic ==
    /\ At({"add", "sub", "mul", "sdiv", "icmp", "and", "xor"})
    /\ machine' \in ArithmeticOutcomes(compiler.output, machine)
    /\ UNCHANGED <<source, lexer, returned, compiler>>

ExecAlloca ==
    /\ At({"alloca"})
    /\ machine' = AllocaStep(compiler.output, machine)
    /\ UNCHANGED <<source, lexer, returned, compiler>>

ExecLoad ==
    /\ At({"load"})
    /\ machine' = LoadStep(compiler.output, machine)
    /\ UNCHANGED <<source, lexer, returned, compiler>>

ExecStore ==
    /\ At({"store"})
    /\ machine' = StoreStep(compiler.output, machine)
    /\ UNCHANGED <<source, lexer, returned, compiler>>

ExecBranch ==
    /\ At({"br", "unreachable"})
    /\ machine' \in BranchOutcomes(compiler.output, machine)
    /\ UNCHANGED <<source, lexer, returned, compiler>>

ExecReturn ==
    /\ At({"ret"})
    /\ machine' = ReturnStep(compiler.output, machine)
    /\ UNCHANGED <<source, lexer, returned, compiler>>

ExecPrintf ==
    /\ AtCall(PrintfName)
    /\ machine' \in PrintfOutcomes(compiler.output, machine)
    /\ UNCHANGED <<source, lexer, returned, compiler>>

ExecMalloc ==
    /\ AtCall(MallocName)
    /\ machine' \in MallocOutcomes(compiler.output, machine)
    /\ UNCHANGED <<source, lexer, returned, compiler>>

ExecRealloc ==
    /\ AtCall(ReallocName)
    /\ machine' \in ReallocOutcomes(compiler.output, machine)
    /\ UNCHANGED <<source, lexer, returned, compiler>>

ExecFree ==
    /\ AtCall(FreeName)
    /\ machine' \in FreeOutcomes(compiler.output, machine)
    /\ UNCHANGED <<source, lexer, returned, compiler>>

ExecStrlen ==
    /\ AtCall(StrlenName)
    /\ machine' \in StrlenOutcomes(compiler.output, machine)
    /\ UNCHANGED <<source, lexer, returned, compiler>>

ExecMemcpy ==
    /\ AtCall(MemcpyName)
    /\ machine' \in MemcpyOutcomes(compiler.output, machine)
    /\ UNCHANGED <<source, lexer, returned, compiler>>

ExecAbort ==
    /\ AtCall(AbortName)
    /\ machine' \in AbortOutcomes(compiler.output, machine)
    /\ UNCHANGED <<source, lexer, returned, compiler>>

CompileNext ==
    \/ CompileLexer
    \/ CompileParser
    \/ CompileDefinitionPass
    \/ CompileTypePass
    \/ CompileNewCompiler
    \/ CompileGenerate
    \/ CompileSaveIn
    \/ BuildAndRun
    \/ ExecArithmetic
    \/ ExecAlloca
    \/ ExecLoad
    \/ ExecStore
    \/ ExecBranch
    \/ ExecReturn
    \/ ExecPrintf
    \/ ExecMalloc
    \/ ExecRealloc
    \/ ExecFree
    \/ ExecStrlen
    \/ ExecMemcpy
    \/ ExecAbort

SpecCompile == InitCompile /\ [][CompileNext]_vars

(***************************************************************************)
(* Claims on the parser.                                                   *)
(***************************************************************************)
ParsedOk == compiler.pc = "definition"

\* the expression of the print statement that the function holds
ParsedExpression == compiler.ast[1].body[1].expression

\* the tokens of that expression: after fn f ( ) -> Num { print, before ; } EOF
ExprTokens == SubSeq(returned.tokens, 9, Len(returned.tokens) - 3)

AtomKinds == {"Number", "Identifier"}
ArithmeticKinds == {"Plus", "Minus", "Star", "ForwardSlash"}
ComparisonKinds ==
    {"EqualEqual", "BangEqual", "LessThan", "LessThanEqual", "GreaterThan",
     "GreaterThanEqual"}

\* atoms and operators in turn, no parentheses
IsFlat(ts, operator_kinds) ==
    /\ Len(ts) % 2 = 1
    /\ \A i \in DOMAIN ts :
          IF i % 2 = 1 THEN ts[i].value.kind \in AtomKinds
          ELSE ts[i].value.kind \in operator_kinds

ArithmeticLevel(kind) == IF kind \in {"Plus", "Minus"} THEN 0 ELSE 1

OperatorNamed(kind) ==
    CASE kind = "Plus" -> "Add" [] kind = "Minus" -> "Sub"
      [] kind = "Star" -> "Mul" [] kind = "ForwardSlash" -> "Div"

\* a tree without its metadata
RECURSIVE Shape(_)
Shape(e) ==
    CASE e.node = "Literal" -> <<e.literal.type, e.literal.value>>
      [] e.node = "Var"     -> <<"Var", e.name>>
      [] e.node = "Binary"  -> <<"Binary", Shape(e.left), e.operator, Shape(e.right)>>
      [] e.node = "ComparisonChain" ->
            <<"ComparisonChain", Shape(e.first_element),
              [i \in DOMAIN e.comparisons |->
                  <<e.comparisons[i][1], Shape(e.comparisons[i][2])>>]>>
      [] OTHER -> <<e.node, Shape(e.expression)>>

AtomShape(token) ==
    IF token.value.kind = "Number" THEN <<"Number", ParseI32(token.value.text)>>
    ELSE <<"Var", token.value.text>>

\* the tree that the grammar gives a flat arithmetic expression: it splits at
\* the last of its operators of the lowest level
RECURSIVE ArithmeticTree(_)
ArithmeticTree(ts) ==
    IF Len(ts) = 1 THEN AtomShape(ts[1])
    ELSE LET ops == {i \in DOMAIN ts : i % 2 = 0}
             lowest == {i \in ops : \A j \in ops :
                           ArithmeticLevel(ts[i].value.kind)
                              <= ArithmeticLevel(ts[j].value.kind)}
             split == CHOOSE i \in lowest : \A j \in lowest : j <= i
         IN  <<"Binary", ArithmeticTree(SubSeq(ts, 1, split - 1)),
               OperatorNamed(ts[split].value.kind),
               ArithmeticTree(SubSeq(ts, split + 1, Len(ts)))>>

\* C8: an arithmetic expression written without parentheses parses to the
\* tree in which * and / bind tighter than + and - and every operator is
\* left-associative
C8_ArithmeticTrees ==
    (ParsedOk /\ IsFlat(ExprTokens, ArithmeticKinds))
        => Shape(ParsedExpression) = ArithmeticTree(ExprTokens)

\* a - b - c was parsed, as Binary(Binary(a, Sub, b), Sub, c)
C8_Witness ==
    /\ ParsedOk
    /\ IsFlat(ExprTokens, ArithmeticKinds)
    /\ Len(ExprTokens) = 5
    /\ ExprTokens[2].value.kind = "Minus" /\ ExprTokens[4].value.kind = "Minus"
    /\ ParsedExpression.node = "Binary"
    /\ ParsedExpression.left.node = "Binary"
    /\ ParsedExpression.right.node \in {"Literal", "Var"}

RECURSIVE ChainsHavePairs(_)
ChainsHavePairs(e) ==
    CASE e.node = "Binary" -> ChainsHavePairs(e.left) /\ ChainsHavePairs(e.right)
      [] e.node = "ComparisonChain" ->
            /\ e.comparisons # <<>>
            /\ ChainsHavePairs(e.first_element)
            /\ \A i \in DOMAIN e.comparisons : ChainsHavePairs(e.comparisons[i][2])
      [] e.node = "PrefixExpression" -> ChainsHavePairs(e.expression)
      [] OTHER -> TRUE

RECURSIVE BodyChainsHavePairs(_)
BodyChainsHavePairs(body) ==
    \A i \in DOMAIN body :
        IF body[i].node = "If"
        THEN /\ ChainsHavePairs(body[i].condition)
             /\ BodyChainsHavePairs(body[i].then)
             /\ BodyChainsHavePairs(body[i].otherwise)
        ELSE ChainsHavePairs(body[i].expression)

\* C10: no ComparisonChain of the parsed file has an empty list of
\* comparisons, and an expression without a comparison token at its top
\* level is no ComparisonChain
C10_NoEmptyChain ==
    /\ \A i \in DOMAIN compiler.ast : BodyChainsHavePairs(compiler.ast[i].body)
    /\ (ParsedOk /\ IsFlat(ExprTokens, ArithmeticKinds))
          => ParsedExpression.node # "ComparisonChain"

\* an expression without a comparison was parsed, and so was a chain
C10_Witness ==
    /\ ParsedOk
    /\ IsFlat(ExprTokens, ArithmeticKinds)
    /\ Len(ExprTokens) = 3
    /\ ParsedExpression.node = "Binary"

(***************************************************************************)
(* Claims on compile_to_ir and on the programs it compiles.                *)
(***************************************************************************)
\* the stage that fails first on a source, with what it returns; the stage
\* "none" where none fails
Outcome(stage, status, error) == [stage |-> stage, status |-> status, error |-> error]

FailureAfterTypes(file) ==
    IF file.status # "ok" THEN Outcome("types", file.status, file.error)
    ELSE Outcome("none", "ok", NoError)

FailureAfterDefinition(file) ==
    IF file.status # "ok" THEN Outcome("definition", file.status, file.error)
    ELSE FailureAfterTypes(VisitFile("types", TypeAnalyzerNew, <<>>, file.value))

FailureAfterParser(file) ==
    IF file.status # "ok" THEN Outcome("parser", file.status, file.error)
    ELSE FailureAfterDefinition(
            VisitFile("definition", DefinitionAnalyzerNew, <<>>, file.value))

FailureAfterLexer(result) ==
    IF result.kind # "ok" THEN Outcome("lexer", result.kind, result.error)
    ELSE FailureAfterParser(ParserParseFile(result.tokens))

FirstFailure(code, overflow_checks) ==
    FailureAfterLexer(
        ReturnOf(RunLexer([EatWhitespace(LexerNew(code)) EXCEPT !.pc = "loop"],
                          overflow_checks)))

\* the place of a stage in compile_to_ir
StageIndex(stage) ==
    CASE stage = "lexer"      -> 1
      [] stage = "parser"     -> 2
      [] stage = "definition" -> 3
      [] stage = "types"      -> 4
      [] OTHER                -> 5

\* the frame of compile_to_ir is where a first failure F lets it be
FailFast(C, F) ==
    /\ C.pc = "err" =>
          /\ F.status = "err"
          /\ C.error = F.error
          /\ C.error.is_err
    /\ C.pc \notin {"err", "panic"} => StageIndex(C.pc) <= StageIndex(F.stage)
    /\ F.stage # "none" =>
          /\ C.module = NoValue
          /\ C.output = NoValue

\* C6: compile_to_ir is fail-fast over the stages lexer, parser,
\* DefinitionPass, TypePass: it returns the first error of the earliest
\* stage that fails, no stage runs once a stage has failed, and where a
\* stage fails no module is created, no output file is written and nothing
\* is run.
C6_FailFast ==
    [][ /\ compiler.pc # "err"
        /\ \E overflow_checks \in BOOLEAN :
              FailFast(compiler', FirstFailure(source, overflow_checks))
        /\ compiler'.pc = "err" => machine' = MachineOff ]_vars

\* compile_to_ir returned the error of DefinitionPass on a source that the
\* lexer and the parser took, and that TypePass would refuse as well
C6_Witness ==
    /\ compiler.pc = "err"
    /\ returned.kind = "ok"
    /\ compiler.ast # <<>>
    /\ compiler.error.message = <<"Invalid type name">>
    /\ \E i \in DOMAIN compiler.ast[1].body :
          /\ compiler.ast[1].body[i].node = "Print"
          /\ compiler.ast[1].body[i].expression.node = "Var"

\* the value of an expression of the language where the variables hold env:
\* a literal of ast.rs
Compare(comp, a, b) ==
    CASE comp = "Equal"            -> a = b
      [] comp = "NotEqual"         -> a # b
      [] comp = "GreaterThan"      -> a > b
      [] comp = "GreaterThanEqual" -> a >= b
      [] comp = "LessThan"         -> a < b
      [] comp = "LessThanEqual"    -> a <= b

Arithmetic(operator, a, b) ==
    CASE operator = "Add" -> AddWrap(a, b)
      [] operator = "Sub" -> SubWrap(a, b)
      [] operator = "Mul" -> MulWrap(a, b)
      [] operator = "Div" -> SDiv(a, b)

RECURSIVE ValueOf(_, _), AdjacentHold(_, _, _, _)
ValueOf(e, env) ==
    CASE e.node = "Literal" -> e.literal
      [] e.node = "Var" -> env[e.name]
      [] e.node = "Binary" ->
            LiteralType("Number", Arithmetic(e.operator, ValueOf(e.left, env).value,
                                             ValueOf(e.right, env).value))
      [] e.node = "ComparisonChain" ->
            LiteralType("Boolean",
                        AdjacentHold(e, env, ValueOf(e.first_element, env).value, 1))
      [] e.node = "PrefixExpression" ->
            LiteralType("Boolean", ~ValueOf(e.expression, env).value)

\* the comparisons of a chain from the pair i on all hold; left is the value
\* of the operand before the pair
AdjacentHold(e, env, left, i) ==
    \/ i > Len(e.comparisons)
    \/ /\ Compare(e.comparisons[i][1], left, ValueOf(e.comparisons[i][2], env).value)
       /\ AdjacentHold(e, env, ValueOf(e.comparisons[i][2], env).value, i + 1)

\* a value as print is to write it
TextOf(value) ==
    CASE value.type = "Number"  -> DecimalText(value.value)
      [] value.type = "String"  -> StrBytes(value.value)
      [] value.type = "Boolean" -> IF value.value THEN <<"t", "r", "u", "e">>
                                   ELSE <<"f", "a", "l", "s", "e">>

\* what the print statements of a body are to write, up to its return
RECURSIVE PrintedBy(_, _)
PrintedBy(body, env) ==
    IF body = <<>> \/ Head(body).node = "Return" THEN <<>>
    ELSE IF Head(body).node = "Print"
    THEN TextOf(ValueOf(Head(body).expression, env)) \o <<"\n">>
            \o PrintedBy(Tail(body), env)
    ELSE IF Head(body).node = "Assignment"
    THEN PrintedBy(Tail(body),
                   MapInsert(env, Head(body).var_name,
                             ValueOf(Head(body).expression, env)))
    ELSE PrintedBy(Tail(body), env)

\* a body of assignments, prints and a return
PrintsOnly(body) ==
    \A i \in DOMAIN body : body[i].node \in {"Assignment", "Print", "Return"}

\* C7: for a well-typed program, executing print e; writes the value of e
\* followed by a newline: a Number as its decimal text, a String as its
\* contents, a Boolean as the word true or false, one arm only, and the
\* statements that follow run: a main of assignments and prints that
\* returns has written, in order, the line of each of its prints.
C7_PrintWritesValue ==
    (machine.status = "exit" /\ PrintsOnly(compiler.ast[1].body))
        => machine.stdout = PrintedBy(compiler.ast[1].body, <<>>)

\* the program prints a chain of comparisons
IsChainProgram ==
    /\ Len(source) > Len(ChainPrefix)
    /\ SubSeq(source, 1, Len(ChainPrefix)) = ChainPrefix

\* the tokens of the chain: after fn main ( ) -> Num { x = 2 ; print, before
\* ; return 0 ; } EOF
ChainTokens == SubSeq(returned.tokens, 13, Len(returned.tokens) - 6)

\* the expression of the print statement, and the value that x is given
PrintedChain == compiler.ast[1].body[2].expression
AssignedValue == compiler.ast[1].body[1].expression.literal.value

\* the expression is the operand that the token writes
OperandIs(e, token) ==
    /\ e.metadata.location = token.source_location
    /\ IF token.value.kind = "Identifier"
       THEN e.node = "Var" /\ e.name = token.value.text
       ELSE /\ e.node = "Literal"
            /\ e.literal.type = "Number"
            /\ e.literal.value = ParseI32(token.value.text)

\* one chain, with the pairs of the source in the order of the source
ChainMatches(chain, tokens) ==
    /\ chain.node = "ComparisonChain"
    /\ 2 * Len(chain.comparisons) + 1 = Len(tokens)
    /\ OperandIs(chain.first_element, tokens[1])
    /\ \A i \in DOMAIN chain.comparisons :
          /\ chain.comparisons[i][1] = ComparisonOf(tokens[2 * i].value.kind)
          /\ OperandIs(chain.comparisons[i][2], tokens[2 * i + 1])

\* the value of the operand that a token writes
TokenValueIn(token, x) ==
    IF token.value.kind = "Identifier" THEN x ELSE ParseI32(token.value.text)

\* e0 op1 e1 and e1 op2 e2 and ...
Conjunction(tokens, x) ==
    \A i \in 1..((Len(tokens) - 1) \div 2) :
        Compare(ComparisonOf(tokens[2 * i].value.kind),
                TokenValueIn(tokens[2 * i - 1], x), TokenValueIn(tokens[2 * i + 1], x))

\* ((e0 op1 e1) op2 e2) ..., a comparison counting as 1 or 0; left is the
\* value before the operator i
RECURSIVE LeftNested(_, _, _, _)
LeftNested(tokens, x, left, i) ==
    IF 2 * i + 1 > Len(tokens) THEN left
    ELSE LeftNested(tokens, x,
                    BoolInt(Compare(ComparisonOf(tokens[2 * i].value.kind), left,
                                    TokenValueIn(tokens[2 * i + 1], x))),
                    i + 1)

\* the operands of the chain that are variables
VarOperands(tokens) ==
    Cardinality({i \in DOMAIN tokens : tokens[i].value.kind = "Identifier"})

\* the instructions of that name that the process ran
Ran(name) == Cardinality({i \in DOMAIN machine.trace : machine.trace[i] = name})

\* the instructions of that name in the blocks of a module from block b on
RECURSIVE EmittedFrom(_, _, _)
EmittedFrom(M, name, b) ==
    IF b > Len(M.blocks) THEN 0
    ELSE Cardinality({i \in DOMAIN M.blocks[b].instrs :
                        M.blocks[b].instrs[i].name = name})
            + EmittedFrom(M, name, b + 1)

Emitted(M, name) == EmittedFrom(M, name, 1)

\* C9: a chain e0 op1 e1 ... opn en is parsed into one ComparisonChain that
\* holds the n pairs of operator and operand in the order of the source; its
\* code evaluates each operand once and yields the conjunction of the n
\* comparisons of adjacent operands, not ((e0 op1 e1) op2 e2).
C9_ChainIsConjunction ==
    IsChainProgram =>
        /\ compiler.pc \in {"definition", "types", "new", "generate", "save", "ok"}
              => ChainMatches(PrintedChain, ChainTokens)
        /\ compiler.pc = "ok"
              => Emitted(compiler.output, <<"Var_Load">>) = VarOperands(ChainTokens)
        /\ machine.status \notin {"off", "run"}
              => /\ machine.status = "exit"
                 /\ ~machine.ub
                 /\ Ran(<<"Var_Load">>) = VarOperands(ChainTokens)
                 /\ machine.stdout =
                        TextOf(LiteralType("Boolean",
                                           Conjunction(ChainTokens, AssignedValue)))
                            \o <<"\n">>

\* a chain of two comparisons on the variable was run, where the
\* conjunction is not what nesting to the left gives
C9_Witness ==
    /\ IsChainProgram
    /\ machine.status = "exit"
    /\ Len(ChainTokens) = 5
    /\ VarOperands(ChainTokens) >= 2
    /\ Conjunction(ChainTokens, AssignedValue)
          # (LeftNested(ChainTokens, AssignedValue,
                        TokenValueIn(ChainTokens[1], AssignedValue), 1) = 1)


(***************************************************************************)
(* SyntaxParser::new and parse_file on the token vector of a source that   *)
(* writes the prefix operator: the vector holds a Bang token where the     *)
(* text holds a ! (Lexer::parse_file emits none, so the vector is the      *)
(* lexer's for the text with - in place of !, the token renamed).          *)
(***************************************************************************)
PrefixAtoms ==
    { <<"1">>, <<"!", "x">>, <<"!", "!", "t", "r", "u", "e">>,
      <<"(", "1", "+", "!", "x", ")">> }

PrefixOperators == { <<"+">>, <<"<">>, <<"=", "=">> }

Dashed(text) == [i \in DOMAIN text |-> IF text[i] = "!" THEN "-" ELSE text[i]]

\* the token at a ! of the text is Bang
WithBang(text, tokens) ==
    [i \in DOMAIN tokens |->
        IF /\ tokens[i].value.kind = "Minus"
           /\ text[tokens[i].source_location.char_start] = "!"
        THEN Token(TokenValue("Bang"), tokens[i].source_location)
        ELSE tokens[i]]

InitSyntaxParser ==
    /\ \E k \in 0..MaxOperators :
         \E atoms \in [1..(k + 1) -> PrefixAtoms], ops \in [1..k -> PrefixOperators] :
            source = PrintPrefix \o Interleave(atoms, ops, 1) \o PrintSuffix
    /\ \E overflow_checks \in BOOLEAN :
          lexer = RunLexer([EatWhitespace(LexerNew(Dashed(source))) EXCEPT !.pc = "loop"],
                           overflow_checks)
    /\ returned = [ReturnOf(lexer) EXCEPT !.tokens = WithBang(source, @)]
    /\ compiler = CompilerAt("parser")
    /\ machine = MachineOff

SpecSyntaxParser == InitSyntaxParser /\ [][CompileParser]_vars

(***************************************************************************)
(* Claims on the spans of the parsed expressions.                          *)
(***************************************************************************)
Contains(a, b) ==
    /\ a.line_start <= b.line_start /\ b.line_end <= a.line_end
    /\ a.char_start <= b.char_start /\ b.char_end <= a.char_end

RECURSIVE SpansContainChildren(_)
SpansContainChildren(e) ==
    CASE e.node = "Binary" ->
            /\ LocationOf(e) = SourceLocationCombine(LocationOf(e.left), LocationOf(e.right))
            /\ Contains(LocationOf(e), LocationOf(e.left))
            /\ Contains(LocationOf(e), LocationOf(e.right))
            /\ SpansContainChildren(e.left) /\ SpansContainChildren(e.right)
      [] e.node = "ComparisonChain" ->
            /\ Contains(LocationOf(e), LocationOf(e.first_element))
            /\ SpansContainChildren(e.first_element)
            /\ \A i \in DOMAIN e.comparisons :
                  /\ Contains(LocationOf(e), LocationOf(e.comparisons[i][2]))
                  /\ SpansContainChildren(e.comparisons[i][2])
      [] e.node = "PrefixExpression" ->
            /\ Contains(LocationOf(e), LocationOf(e.expression))
            /\ SpansContainChildren(e.expression)
      [] OTHER -> TRUE

\* C11: the span of every Binary, ComparisonChain and PrefixExpression node
\* that the parser returns contains the span of each of its child
\* expressions, and a Binary node's span is the combine of its children's
C11_SpansContainChildren ==
    ParsedOk => SpansContainChildren(ParsedExpression)


(***************************************************************************)
(* apply_analyzer on the files of SyntaxParser::parse_file, the token      *)
(* vector holding Bang, If and Else where the text writes !, if and else.  *)
(***************************************************************************)
\* the token of the word if is If, of the word else is Else
WithKeywords(tokens) ==
    [i \in DOMAIN tokens |->
        IF tokens[i].value = TokenValueOf("Identifier", <<"i", "f">>)
        THEN Token(TokenValue("If"), tokens[i].source_location)
        ELSE IF tokens[i].value = TokenValueOf("Identifier", <<"e", "l", "s", "e">>)
        THEN Token(TokenValue("Else"), tokens[i].source_location)
        ELSE tokens[i]]

\* the statements of the analyzed functions, on one line

AnalyzerStatements ==
    {<<"x", " ", "=", " ", "1", ";", " ">>,
     <<"x", " ", "=", " ", Quote, "a", Quote, ";", " ">>,
     <<"y", " ", "=", " ", "x", ";", " ">>,
     <<"x", " ", "=", " ", "x", " ", "+", " ", "1", ";", " ">>,
     <<"x", " ", "=", " ", "t", "r", "u", "e", ";", " ">>,
     <<"a", "s", "s", "e", "r", "t", " ", "x", ";", " ">>,
     <<"t", "e", "s", "t", " ", Quote, "t", Quote, " ", "-", ">", " ", "x", " ",
       "<", " ", "2", ";", " ">>,
     <<"t", "e", "s", "t", " ", Quote, "t", Quote, " ", "-", ">", " ", "x", ";",
       " ">>,
     <<"r", "e", "t", "u", "r", "n", " ", "x", ";", " ">>,
     <<"r", "e", "t", "u", "r", "n", " ", Quote, "a", Quote, ";", " ">>,
     <<"i", "f", " ", "x", " ", "{", " ", "y", " ", "=", " ", "1", ";", " ",
       "}", " ", "e", "l", "s", "e", " ", "{", " ", "y", " ", "=", " ", "2",
       ";", " ", "}", " ">>,
     <<"p", "r", "i", "n", "t", " ", "!", "x", ";", " ">> }

AnalyzerHeaders ==
    {<<"f", "n", " ", "m", "a", "i", "n", "(", ")", " ", "-", ">", " ", "N",
       "u", "m", " ", "{", " ">>,
     <<"f", "n", " ", "m", "a", "i", "n", "(", ")", " ", "-", ">", " ", "S",
       "t", "r", "i", "n", "g", " ", "{", " ">>,
     <<"f", "n", " ", "m", "a", "i", "n", "(", ")", " ", "-", ">", " ", "I",
       "n", "t", " ", "{", " ">> }

\* what follows the body of main: its end, and a second function or none
AnalyzerEndings ==
    {<<"}", " ">>,
     <<"}", " ", "f", "n", " ", "g", "(", ")", " ", "-", ">", " ", "N", "u",
       "m", " ", "{", " ", "p", "r", "i", "n", "t", " ", "x", ";", " ", "}",
       " ">>,
     <<"}", " ", "f", "n", " ", "g", "(", ")", " ", "-", ">", " ", "I", "n",
       "t", " ", "{", " ", "}", " ">>,
     <<"}", " ", "f", "n", " ", "g", "(", ")", " ", "-", ">", " ", "N", "u",
       "m", " ", "{", " ", "x", " ", "=", " ", Quote, "a", Quote, ";", " ", "}",
       " ">> }

AnalyzerPrograms ==
    { header \o Concat(ps) \o ending :
        header \in AnalyzerHeaders, ending \in AnalyzerEndings,
        ps \in UNION {[1..n -> AnalyzerStatements] : n \in 0..MaxStatements} }

InitAnalyze ==
    /\ source \in AnalyzerPrograms
    /\ \E overflow_checks \in BOOLEAN :
          lexer = RunLexer([EatWhitespace(LexerNew(Dashed(source))) EXCEPT !.pc = "loop"],
                           overflow_checks)
    /\ returned = [ReturnOf(lexer) EXCEPT !.tokens = WithKeywords(WithBang(source, @))]
    /\ compiler = CompilerAt("parser")
    /\ machine = MachineOff

AnalyzeNext == CompileParser \/ CompileDefinitionPass \/ CompileTypePass

SpecAnalyze == InitAnalyze /\ [][AnalyzeNext]_vars

(***************************************************************************)
(* Claims on the passes of apply_analyzer.                                 *)
(***************************************************************************)
TypePassed == compiler.pc = "new"

\* every node of the expression holds a type, and the operands of every
\* Binary node hold the same type
RECURSIVE AllTyped(_)
AllTyped(e) ==
    /\ TypeInfo(e) # NoType
    /\ CASE e.node = "Binary" ->
               /\ AllTyped(e.left) /\ AllTyped(e.right)
               /\ SameType(TypeInfo(e.left), TypeInfo(e.right))
         [] e.node = "ComparisonChain" ->
               /\ AllTyped(e.first_element)
               /\ \A i \in DOMAIN e.comparisons : AllTyped(e.comparisons[i][2])
         [] e.node = "PrefixExpression" -> AllTyped(e.expression)
         [] OTHER -> TRUE

RECURSIVE BodyTyped(_)
BodyTyped(body) ==
    \A i \in DOMAIN body :
        IF body[i].node = "If"
        THEN /\ AllTyped(body[i].condition)
             /\ BodyTyped(body[i].then)
             /\ BodyTyped(body[i].otherwise)
        ELSE AllTyped(body[i].expression)

\* some node of the expression is of this kind
RECURSIVE HasNode(_, _)
HasNode(e, node) ==
    \/ e.node = node
    \/ CASE e.node = "Binary" -> HasNode(e.left, node) \/ HasNode(e.right, node)
         [] e.node = "ComparisonChain" ->
               \/ HasNode(e.first_element, node)
               \/ \E i \in DOMAIN e.comparisons : HasNode(e.comparisons[i][2], node)
         [] e.node = "PrefixExpression" -> HasNode(e.expression, node)
         [] OTHER -> FALSE

RECURSIVE BodyHasNode(_, _)
BodyHasNode(body, node) ==
    \E i \in DOMAIN body :
        IF body[i].node = "If"
        THEN \/ HasNode(body[i].condition, node)
             \/ BodyHasNode(body[i].then, node)
             \/ BodyHasNode(body[i].otherwise, node)
        ELSE HasNode(body[i].expression, node)

\* C12: once the TypePass succeeded every expression node of every function
\* body holds its type and the operands of every Binary node hold the same
\* type; the analyzer never reads a type that is not set (no pass panics)
C12_AllTyped ==
    /\ compiler.pc # "panic"
    /\ TypePassed => \A i \in DOMAIN compiler.ast : BodyTyped(compiler.ast[i].body)

\* the TypePass succeeded on a file of two functions, the body of the first
\* holding a Binary node
C12_Witness ==
    /\ TypePassed
    /\ BodyHasNode(compiler.ast[1].body, "Binary")
    /\ Len(compiler.ast) = 2
    /\ BodyHasNode(compiler.ast[2].body, "Literal")

\* the TypePass ran on the file: the DefinitionPass set every return type
TypePassRan ==
    /\ compiler.pc \in {"new", "err"}
    /\ compiler.ast # <<>>
    /\ \A i \in DOMAIN compiler.ast : compiler.ast[i].metadata.return_type # NoType

\* the Var nodes of an expression, each with its name and its location
RECURSIVE VarsOf(_)
VarsOf(e) ==
    CASE e.node = "Var" -> {[name |-> e.name, location |-> LocationOf(e)]}
      [] e.node = "Binary" -> VarsOf(e.left) \cup VarsOf(e.right)
      [] e.node = "ComparisonChain" ->
            VarsOf(e.first_element)
               \cup UNION {VarsOf(e.comparisons[i][2]) : i \in DOMAIN e.comparisons}
      [] e.node = "PrefixExpression" -> VarsOf(e.expression)
      [] OTHER -> {}

RECURSIVE BodyVars(_)
BodyVars(body) ==
    UNION { IF body[i].node = "If"
            THEN VarsOf(body[i].condition) \cup BodyVars(body[i].then)
                    \cup BodyVars(body[i].otherwise)
            ELSE VarsOf(body[i].expression) : i \in DOMAIN body }

\* the column at which the text of an expression ends
RECURSIVE ExpressionEnd(_)
ExpressionEnd(e) ==
    CASE e.node = "Binary" -> ExpressionEnd(e.right)
      [] e.node = "ComparisonChain" ->
            ExpressionEnd(e.comparisons[Len(e.comparisons)][2])
      [] e.node = "PrefixExpression" -> ExpressionEnd(e.expression)
      [] OTHER -> LocationOf(e).char_end

\* the assignments of a body, each with its name and the end of its value
RECURSIVE BodyAssignments(_)
BodyAssignments(body) ==
    UNION { CASE body[i].node = "If" ->
                    BodyAssignments(body[i].then) \cup BodyAssignments(body[i].otherwise)
              [] body[i].node = "Assignment" ->
                    {[name |-> body[i].var_name, end |-> ExpressionEnd(body[i].expression)]}
              [] OTHER -> {} : i \in DOMAIN body }

\* the Var nodes of a function that no assignment of the function precedes
UndefinedVars(function) ==
    {v \in BodyVars(function.body) :
        ~ \E a \in BodyAssignments(function.body) :
              a.name = v.name /\ a.end < v.location.char_start}

UndefinedInFile == UNION {UndefinedVars(compiler.ast[i]) : i \in DOMAIN compiler.ast}

\* C13: once the TypePass succeeded the var_types of each function holds
\* exactly the names assigned in its own body and the name of every Var of
\* the body; a Var that no assignment of its own function precedes, also one
\* assigned in the function analyzed before, fails the pass with Name <name>
\* not defined at the Var, unless an error before it in the text came first
C13_VarTypesOfOwnBody ==
    /\ TypePassed =>
          \A i \in DOMAIN compiler.ast :
              /\ DOMAIN compiler.ast[i].metadata.var_types
                    = {a.name : a \in BodyAssignments(compiler.ast[i].body)}
              /\ \A v \in BodyVars(compiler.ast[i].body) :
                    v.name \in DOMAIN compiler.ast[i].metadata.var_types
              /\ UndefinedVars(compiler.ast[i]) = {}
    /\ (TypePassRan /\ UndefinedInFile # {}) =>
          /\ compiler.pc = "err"
          /\ \E v \in UndefinedInFile :
                /\ \A w \in UndefinedInFile :
                      v.location.char_start <= w.location.char_start
                /\ \/ /\ compiler.error.message = <<"Name", v.name, "not defined">>
                      /\ compiler.error.location = v.location
                   \/ compiler.error.location.char_end < v.location.char_start

\* main assigned x and passed, g read x and the pass failed on it
C13_Witness ==
    /\ TypePassRan
    /\ Len(compiler.ast) = 2
    /\ UndefinedVars(compiler.ast[1]) = {}
    /\ <<"x">> \in {a.name : a \in BodyAssignments(compiler.ast[1].body)}
    /\ compiler.error.message = <<"Name", <<"x">>, "not defined">>
    /\ \E v \in UndefinedVars(compiler.ast[2]) : compiler.error.location = v.location

(***************************************************************************)
(* TypeAnalyzer::visit_stmt on a statement whose expression is analyzed,   *)
(* and visit_expression on a prefix expression whose operand is: the       *)
(* expression's type is any TypeInformation, the table holds the borrowed  *)
(* types that visit_stmt stores.                                           *)
(***************************************************************************)
AssignedNames == { <<"x">>, <<"y">> }

StoredTypes == {TypeNumber, TypeBoolean, TypeString(FALSE)}

ValueTypes == StoredTypes \cup {TypeString(TRUE)}

\* an analyzed expression v of the type
Typed(type) ==
    WithType(Var(ExpressionMetadataFrom(SourceLocationNew(1, 5, 5)), <<"v">>), type)

\* name = v;  assert v;  test "t" -> v;  if v { } and print !v;
StatementsOn(name, type) ==
    { Assignment(SourceLocationNew(1, 1, 1), name, Typed(type)),
      [node |-> "Assert", expression |-> Typed(type)],
      TestStatement(<<"t">>, Typed(type)),
      IfStatement(Typed(type), <<>>, <<>>),
      [node |-> "Print",
       expression |-> PrefixExpression("Not", Typed(type),
                         ExpressionMetadataFrom(SourceLocationNew(1, 4, 4)))] }

\* the call that _visit_stmt or _visit_expression is about to make
VisitStmtAt(A, stmt) ==
    [pc |-> IF stmt.node = "Print" THEN "visit_expression" ELSE "visit_stmt",
     ast |-> <<stmt>>, error |-> NoError, module |-> NoValue,
     output |-> NoValue, before |-> A, analyzer |-> A]

InitVisitStmt ==
    /\ source = <<>>
    /\ lexer = LexerNew(source)
    /\ returned = NotReturned
    /\ machine = MachineOff
    /\ \E names \in SUBSET AssignedNames :
       \E var_types \in [names -> StoredTypes], name \in AssignedNames, type \in ValueTypes :
       \E stmt \in StatementsOn(name, type) :
          compiler = VisitStmtAt([TypeAnalyzerNew EXCEPT !.var_types = var_types], stmt)

\* visit_stmt returned
VisitedStmt(C, result) ==
    IF result.status = "ok"
    THEN [C EXCEPT !.pc = "ok", !.ast = <<result.value>>, !.analyzer = result.analyzer]
    ELSE [C EXCEPT !.pc = result.status, !.error = result.error]

\* self.visit_stmt(statement)
VisitStmtStep ==
    /\ compiler.pc = "visit_stmt"
    /\ compiler' = VisitedStmt(compiler, TypeVisitStmt(compiler.analyzer, compiler.ast[1]))
    /\ UNCHANGED <<source, lexer, returned, machine>>

\* visit_expression returned, on the expression of a print
VisitedExpression(C, result) ==
    IF result.status = "ok"
    THEN [C EXCEPT !.pc = "ok", !.ast[1].expression = result.value,
                   !.analyzer = result.analyzer]
    ELSE [C EXCEPT !.pc = result.status, !.error = result.error]

\* self.visit_expression(expression)
VisitExpressionStep ==
    /\ compiler.pc = "visit_expression"
    /\ compiler' = VisitedExpression(compiler,
                      TypeVisitExpression(compiler.analyzer, compiler.ast[1].expression))
    /\ UNCHANGED <<source, lexer, returned, machine>>

VisitNext == VisitStmtStep \/ VisitExpressionStep

SpecVisitStmt == InitVisitStmt /\ [][VisitNext]_vars

\* C14: the first assignment to a name stores the borrowed form of the
\* value's type; an assignment to a name that the table holds is accepted
\* exactly when same_type(value type, stored type), so a String(true) value
\* is accepted for a string variable, and it leaves the table as it was
C14_AssignmentSameType ==
    (compiler.pc \in {"ok", "err", "panic"} /\ compiler.ast[1].node = "Assignment") =>
        IF compiler.ast[1].var_name \notin DOMAIN compiler.before.var_types
        THEN /\ compiler.pc = "ok"
             /\ compiler.analyzer.var_types =
                   MapInsert(compiler.before.var_types, compiler.ast[1].var_name,
                             MarkBorrowed(TypeInfo(compiler.ast[1].expression)))
        ELSE /\ compiler.pc = "ok" <=>
                   SameType(TypeInfo(compiler.ast[1].expression),
                            compiler.before.var_types[compiler.ast[1].var_name])
             /\ compiler.pc # "panic"
             /\ compiler.analyzer.var_types = compiler.before.var_types

\* the type that visit_expression gives a literal
TypeOfLiteral(literal) ==
    CASE literal.type = "Number"  -> TypeNumber
      [] literal.type = "String"  -> TypeString(FALSE)
      [] literal.type = "Boolean" -> TypeBoolean

\* main begins with the return of a literal
ReturnsLiteralFirst ==
    /\ TypePassRan
    /\ compiler.ast[1].body # <<>>
    /\ compiler.ast[1].body[1].node = "Return"
    /\ compiler.ast[1].body[1].expression.node = "Literal"

\* the pass failed at the value of the first statement of main
RejectedFirst ==
    /\ compiler.pc = "err"
    /\ compiler.error.location = LocationOf(compiler.ast[1].body[1].expression)

\* C15: return e is accepted exactly when same_type(type of e, declared
\* return type), whatever the ownership of a string: return "a" is accepted
\* in a function declared -> String and rejected in one declared -> Num
C15_ReturnSameType ==
    ReturnsLiteralFirst =>
        (RejectedFirst <=>
            ~SameType(TypeOfLiteral(compiler.ast[1].body[1].expression.literal),
                      compiler.ast[1].metadata.return_type))

Visited == compiler.pc \in {"ok", "err", "panic"}

\* the expression that the visited check reads: of an if its condition, of a
\* print the operand of its prefix expression
CheckedExpression ==
    CASE compiler.ast[1].node = "If"    -> compiler.ast[1].condition
      [] compiler.ast[1].node = "Print" -> compiler.ast[1].expression.expression
      [] OTHER                          -> compiler.ast[1].expression

\* C16: visit_stmt accepts an assert, a test and an if exactly when the
\* expression is Boolean, and visit_expression accepts !e exactly when e is
\* Boolean; an assert or a test of another type fails with Expected Boolean,
\* got <type> at the expression, an if and a prefix fail at it too
C16_BooleanExpected ==
    (Visited /\ compiler.ast[1].node \in {"Assert", "Test", "If", "Print"}) =>
        /\ compiler.pc # "panic"
        /\ compiler.pc = "ok" <=> TypeInfo(CheckedExpression) = TypeBoolean
        /\ compiler.pc = "err" =>
              /\ compiler.error.location = LocationOf(CheckedExpression)
              /\ compiler.ast[1].node \in {"Assert", "Test"} =>
                    compiler.error.message =
                       <<"Expected Boolean, got", TypeInfo(CheckedExpression)>>

\* a test of a Number was rejected
C16_Witness ==
    /\ compiler.pc = "err"
    /\ compiler.ast[1].node = "Test"
    /\ compiler.error.message = <<"Expected Boolean, got", TypeNumber>>

TypeNames == { <<"N", "u", "m">>, <<"S", "t", "r", "i", "n", "g">>, <<"B", "o", "o", "l">> }

\* the functions of the parsed file whose return type names no type
UnknownReturnTypes ==
    {i \in DOMAIN compiler.ast : compiler.ast[i].return_type_name \notin TypeNames}

\* C17: when the TypePass starts the DefinitionPass has set the return type
\* of every function of the file, so the unwrap of pre_visit_toplevel never
\* panics; a file with an unknown return type name in any function fails
\* with Invalid type name at the first such name, whatever its bodies hold
C17_DefinitionPassFirst ==
    /\ compiler.pc # "panic"
    /\ compiler.pc = "types" =>
          \A i \in DOMAIN compiler.ast : compiler.ast[i].metadata.return_type # NoType
    /\ (compiler.pc \notin {"parser", "definition"} /\ UnknownReturnTypes # {}) =>
          /\ compiler.pc = "err"
          /\ compiler.error.message = <<"Invalid type name">>
          /\ \E i \in UnknownReturnTypes :
                /\ \A j \in UnknownReturnTypes : i <= j
                /\ compiler.error.location = compiler.ast[i].return_type_location

\* main reads a variable that is not defined, the return type of g is
\* unknown, and the error is that of g
C17_Witness ==
    /\ compiler.pc = "err"
    /\ Len(compiler.ast) = 2
    /\ UnknownReturnTypes = {2}
    /\ UndefinedVars(compiler.ast[1]) # {}
    /\ compiler.error.message = <<"Invalid type name">>
    /\ compiler.error.location = compiler.ast[2].return_type_location

(***************************************************************************)
(* Claims on the strings of the generated program.                         *)
(***************************************************************************)
\* C18: where the generated program copies a string, the buffer that
\* realloc or malloc returned holds strlen(source) + 1 bytes and memcpy is
\* called with the buffer, the source and a count of strlen(source) + 1
C18_CopiesIncludeTerminator ==
    (AtCall(MemcpyName) /\ Len(Current(compiler.output, machine).args) >= 2
                        /\ IsCString(machine, Arg(compiler.output, machine, 2))) =>
        /\ Len(Current(compiler.output, machine).args) = 3
        /\ Arg(compiler.output, machine, 3) =
              IntV(Len(CString(machine, Arg(compiler.output, machine, 2))) + 1)
        /\ IsLiveHeap(machine, Arg(compiler.output, machine, 1)) =>
              Len(machine.memory[Arg(compiler.output, machine, 1).obj].bytes) =
                 Len(CString(machine, Arg(compiler.output, machine, 2))) + 1

(***************************************************************************)
(* compile_to_ir, build and run on the files of SyntaxParser::parse_file,  *)
(* the token vector holding If and Else where the text writes if and else. *)
(***************************************************************************)
\* the head of main and its first statement
RunHeader ==
    <<"f", "n", " ", "m", "a", "i", "n", "(", ")", " ", "-", ">", " ", "N",
      "u", "m", " ", "{", "\n", "n", " ", "=", " ", "1", ";", "\n">>

\* the statements of main, each on a line of its own
RunStatements ==
    {<<"x", " ", "=", " ", Quote, "h", "i", Quote, ";", "\n">>,
     <<"x", " ", "=", " ", Quote, Quote, ";", "\n">>,
     <<"y", " ", "=", " ", "x", ";", "\n">>,
     <<"i", "f", " ", "n", " ", "<", " ", "2", " ", "{", " ", "x", " ", "=",
       " ", Quote, "a", Quote, ";", " ", "}", " ", "e", "l", "s", "e", " ", "{",
       " ", "x", " ", "=", " ", Quote, "b", "c", Quote, ";", " ", "}", "\n">>,
     <<"i", "f", " ", "2", " ", "<", " ", "n", " ", "{", " ", "y", " ", "=",
       " ", Quote, "a", Quote, ";", " ", "}", " ", "e", "l", "s", "e", " ", "{",
       " ", "x", " ", "=", " ", Quote, "b", "c", Quote, ";", " ", "}", "\n">>,
     <<"a", "s", "s", "e", "r", "t", " ", "n", " ", "=", "=", " ", "2", ";",
       "\n">>,
     <<"a", "s", "s", "e", "r", "t", " ", "n", " ", "=", "=", " ", "1", ";",
       "\n">>,
     <<"t", "e", "s", "t", " ", Quote, "t", Quote, " ", "-", ">", " ", "n", " ",
       "=", "=", " ", "1", ";", "\n">>,
     <<"t", "e", "s", "t", " ", Quote, "t", Quote, " ", "-", ">", " ", "2", " ",
       "=", "=", " ", "n", ";", "\n">>,
     <<"a", "s", "s", "e", "r", "t", " ", "(", "\n", "n", " ", "=", "=",
       " ", "2", ")", ";", "\n">> }

RunPrograms ==
    { RunHeader \o Concat(ps) \o ReturnZero :
        ps \in UNION {[1..n -> RunStatements] : n \in 0..MaxStatements} }

InitRun ==
    /\ source \in RunPrograms
    /\ \E overflow_checks \in BOOLEAN :
          lexer = RunLexer([EatWhitespace(LexerNew(source)) EXCEPT !.pc = "loop"],
                           overflow_checks)
    /\ returned = [ReturnOf(lexer) EXCEPT !.tokens = WithKeywords(@)]
    /\ compiler = CompilerAt("parser")
    /\ machine = MachineOff

RunNext ==
    \/ CompileParser
    \/ CompileDefinitionPass
    \/ CompileTypePass
    \/ CompileNewCompiler
    \/ CompileGenerate
    \/ CompileSaveIn
    \/ BuildAndRun
    \/ ExecArithmetic
    \/ ExecAlloca
    \/ ExecLoad
    \/ ExecStore
    \/ ExecBranch
    \/ ExecReturn
    \/ ExecPrintf
    \/ ExecMalloc
    \/ ExecRealloc
    \/ ExecFree
    \/ ExecStrlen
    \/ ExecMemcpy
    \/ ExecAbort

SpecRun == InitRun /\ [][RunNext]_vars

(***************************************************************************)
(* The heap of the process: llvm_generator.rs, compile_var_allocations,    *)
(* compile_assignment and free_used_vars.                                  *)
(***************************************************************************)
\* the allocations that malloc and realloc returned
HeapObjects(m) == {o \in DOMAIN m.memory : m.memory[o].kind = "heap"}

\* the allocations that neither free nor realloc has released
LiveHeap(m) == {o \in HeapObjects(m) : m.memory[o].live}

\* C19: where main returns, every allocation of compile_var_allocations and
\* of the assignments is released; and no call of free is given the address
\* of an allocation that was released before, whichever arms of the if
\* statements ran
C19_HeapReleasedOnce ==
    /\ machine.status = "exit" => LiveHeap(machine) = {}
    /\ AtCall(FreeName) =>
          \/ Arg(compiler.output, machine, 1) = NullV
          \/ IsLiveHeap(machine, Arg(compiler.output, machine, 1))

\* main returned, where C defines every step, from a body with an if
\* statement and two allocations or more
C19_Witness ==
    /\ machine.status = "exit"
    /\ ~machine.ub
    /\ \E i \in DOMAIN compiler.ast[1].body : compiler.ast[1].body[i].node = "If"
    /\ Cardinality(HeapObjects(machine)) >= 2
    /\ LiveHeap(machine) = {}

(***************************************************************************)
(* What the asserts and the tests of a body are to do:                     *)
(* llvm_generator.rs, compile_assert and compile_test.                     *)
(***************************************************************************)
\* the line of the token after each assert keyword: where its expression starts
RECURSIVE AssertLines(_)
AssertLines(tokens) ==
    IF Len(tokens) < 2 THEN <<>>
    ELSE IF Head(tokens).value.kind = "Assert"
    THEN <<tokens[2].source_location.line_start>> \o AssertLines(Tail(tokens))
    ELSE AssertLines(Tail(tokens))

\* the line that the location of each assert's expression starts on
RECURSIVE LocatedLines(_)
LocatedLines(body) ==
    IF body = <<>> THEN <<>>
    ELSE IF Head(body).node = "Assert"
    THEN <<LocationOf(Head(body).expression).line_start>> \o LocatedLines(Tail(body))
    ELSE LocatedLines(Tail(body))

AssertFailure(line) ==
    <<"A", "s", "s", "e", "r", "t", " ", "o", "n", " ", "l", "i", "n", "e", " ">>
        \o DecimalText(line) \o <<" ", "f", "a", "i", "l", "e", "d", "\n">>

Continued(text, rest) == [rest EXCEPT !.stdout = text \o @]

Aborted(text) == [stdout |-> text, aborted |-> TRUE]

\* what the asserts and tests of a body write up to its return, and whether
\* the body calls abort; lines holds the line of each assert that is left,
\* env the Number variables assigned so far.  The if statements of the
\* programs hold assignments of strings only.
RECURSIVE AssertedBy(_, _, _, _)
AssertedBy(body, env, lines, file_name) ==
    IF body = <<>> \/ Head(body).node = "Return"
    THEN [stdout |-> <<>>, aborted |-> FALSE]
    ELSE IF Head(body).node = "Assert"
    THEN IF ValueOf(Head(body).expression, env).value
         THEN AssertedBy(Tail(body), env, Tail(lines), file_name)
         ELSE Aborted(AssertFailure(Head(lines)))
    ELSE IF Head(body).node = "Test"
    THEN IF ValueOf(Head(body).expression, env).value
         THEN Continued(OkLabel(TestLabel(Head(body).name, file_name)) \o <<"\n">>,
                        AssertedBy(Tail(body), env, lines, file_name))
         ELSE Aborted(FailedLabel(TestLabel(Head(body).name, file_name)) \o <<"\n">>)
    ELSE IF /\ Head(body).node = "Assignment"
            /\ Head(body).expression.node = "Literal"
            /\ Head(body).expression.literal.type = "Number"
    THEN AssertedBy(Tail(body),
                    MapInsert(env, Head(body).var_name,
                              ValueOf(Head(body).expression, env)),
                    lines, file_name)
    ELSE AssertedBy(Tail(body), env, lines, file_name)

\* the process does what the asserts and tests of main are to do
DoesAsAsserted(expected) ==
    /\ AtCall(AbortName) => expected.aborted /\ machine.stdout = expected.stdout
    /\ machine.status = "abort" => expected.aborted
    /\ machine.status = "exit" => ~expected.aborted /\ machine.stdout = expected.stdout

\* the process runs, or has ended, with every step defined by C
Defined == machine.status \in {"run", "exit", "abort"} /\ ~machine.ub

\* C20: an assert or a test whose condition is true never calls abort and
\* the next statement runs, the test having printed its OK line and the
\* assert nothing; where the condition is false the failure line is printed
\* (for an assert, Assert on line N failed, N the line where the expression
\* starts), abort is called, and no statement after it runs
C20_AssertAndTest ==
    Defined => DoesAsAsserted(AssertedBy(compiler.ast[1].body, <<>>,
                                         AssertLines(returned.tokens),
                                         compiler.output.name))

\* the same with N the line that the location of the expression starts on,
\* which for a group is the line of what follows the parenthesis
AssertAndTestAtLocation ==
    Defined => DoesAsAsserted(AssertedBy(compiler.ast[1].body, <<>>,
                                         LocatedLines(compiler.ast[1].body),
                                         compiler.output.name))

(***************************************************************************)
(* source_location.rs: SourceLocation::combine on every pair of spans.     *)
(***************************************************************************)
MaxSpan == 3

\* the spans whose lines and columns are at most MaxSpan
Spans ==
    { [line_start |-> ls, line_end |-> le, char_start |-> cs, char_end |-> ce] :
        ls \in 1..MaxSpan, le \in 1..MaxSpan, cs \in 0..MaxSpan, ce \in 0..MaxSpan }

\* the call SourceLocation::combine(&a, &b) about to be made
CombineAt(a, b) ==
    [pc |-> "combine", ast |-> <<a, b>>, error |-> NoError, module |-> NoValue,
     output |-> NoValue]

InitCombine ==
    /\ source = <<>>
    /\ lexer = LexerNew(source)
    /\ returned = NotReturned
    /\ machine = MachineOff
    /\ \E a \in Spans, b \in Spans : compiler = CombineAt(a, b)

\* SourceLocation::combine(&a, &b)
Combine ==
    /\ compiler.pc = "combine"
    /\ compiler' = [compiler EXCEPT
          !.pc = "combined",
          !.output = SourceLocationCombine(compiler.ast[1], compiler.ast[2])]
    /\ UNCHANGED <<source, lexer, returned, machine>>

SpecCombine == InitCombine /\ [][Combine]_vars

\* n is the least of a and b
IsLeast(n, a, b) == n \in {a, b} /\ n <= a /\ n <= b

\* n is the greatest of a and b
IsGreatest(n, a, b) == n \in {a, b} /\ n >= a /\ n >= b

\* C21: combine(a, b) holds the least line_start, the greatest line_end, the
\* least char_start and the greatest char_end of a and b, and combine(b, a)
\* is the same span
C21_CombineIsEnclosing ==
    compiler.pc = "combined" =>
        /\ IsLeast(compiler.output.line_start,
                   compiler.ast[1].line_start, compiler.ast[2].line_start)
        /\ IsGreatest(compiler.output.line_end,
                      compiler.ast[1].line_end, compiler.ast[2].line_end)
        /\ IsLeast(compiler.output.char_start,
                   compiler.ast[1].char_start, compiler.ast[2].char_start)
        /\ IsGreatest(compiler.output.char_end,
                      compiler.ast[1].char_end, compiler.ast[2].char_end)
        /\ compiler.output = SourceLocationCombine(compiler.ast[2], compiler.ast[1])

\* combine returned a span that is neither argument, the first argument
\* starting at a later column and ending on a later line than the second
C21_Witness ==
    /\ compiler.pc = "combined"
    /\ compiler.output # compiler.ast[1]
    /\ compiler.output # compiler.ast[2]
    /\ compiler.ast[1].char_start > compiler.ast[2].char_start
    /\ compiler.ast[1].line_end > compiler.ast[2].line_end

(***************************************************************************)
(* analyzers/mod.rs: _visit_stmt on an if statement whose bodies hold      *)
(* statements of their own.                                                *)
(***************************************************************************)
\* the conditions of the if statement: a Number, a Boolean, a String
WalkConditions ==
    {<<"1">>,
     <<"t", "r", "u", "e">>,
     <<Quote, "a", Quote>> }

\* the statements of its bodies: an assert of a Number, which the TypePass
\* rejects, an assert of a Boolean and an assignment
WalkStatements ==
    {<<"a", "s", "s", "e", "r", "t", " ", "1", ";", " ">>,
     <<"a", "s", "s", "e", "r", "t", " ", "t", "r", "u", "e", ";", " ">>,
     <<"y", " ", "=", " ", "1", ";", " ">> }

WalkHeader ==
    <<"f", "n", " ", "m", "a", "i", "n", "(", ")", " ", "-", ">", " ", "N",
      "u", "m", " ", "{", " ", "i", "f", " ">>
WalkThen ==
    <<" ", "{", " ">>
WalkElse ==
    <<"}", " ", "e", "l", "s", "e", " ", "{", " ">>
WalkEnding ==
    <<"}", " ", "}", " ">>

WalkBodies == UNION {[1..n -> WalkStatements] : n \in 0..MaxStatements}

WalkPrograms ==
    { WalkHeader \o condition \o WalkThen \o Concat(then) \o WalkElse
        \o Concat(otherwise) \o WalkEnding :
        condition \in WalkConditions, then \in WalkBodies, otherwise \in WalkBodies }

InitWalk ==
    /\ source \in WalkPrograms
    /\ \E overflow_checks \in BOOLEAN :
          lexer = RunLexer([EatWhitespace(LexerNew(source)) EXCEPT !.pc = "loop"],
                           overflow_checks)
    /\ returned = [ReturnOf(lexer) EXCEPT !.tokens = WithKeywords(@)]
    /\ compiler = CompilerAt("parser")
    /\ machine = MachineOff

SpecWalk == InitWalk /\ [][AnalyzeNext]_vars

\* the if statement that main holds
WalkedIf == compiler.ast[1].body[1]

\* C22: the TypePass checks the condition of an if statement before it
\* analyzes a statement of its bodies: an if whose condition is not Boolean
\* ends in the error of the condition, at the condition, whatever its bodies
\* hold
C22_ConditionCheckedFirst ==
    (TypePassRan /\ TypeOfLiteral(WalkedIf.condition.literal) # TypeBoolean) =>
        /\ compiler.pc = "err"
        /\ compiler.error.location = LocationOf(WalkedIf.condition)
        /\ compiler.error.message =
              <<"Expected condition to be bool, got",
                TypeOfLiteral(WalkedIf.condition.literal)>>

\* the same where no statement of the bodies is rejected on its own
BodiesAccepted ==
    \A body \in {WalkedIf.then, WalkedIf.otherwise} : \A i \in DOMAIN body :
        body[i].node = "Assert" => body[i].expression.literal.type = "Boolean"

ConditionCheckedLast ==
    (TypePassRan /\ TypeOfLiteral(WalkedIf.condition.literal) # TypeBoolean
                 /\ BodiesAccepted) =>
        /\ compiler.pc = "err"
        /\ compiler.error.location = LocationOf(WalkedIf.condition)
        /\ compiler.error.message =
              <<"Expected condition to be bool, got",
                TypeOfLiteral(WalkedIf.condition.literal)>>

(***************************************************************************)
(* lib.rs: compile_to_ir from the parser to the module, on the programs of *)
(* the analyzer.                                                           *)
(***************************************************************************)
LowerNext ==
    \/ CompileParser
    \/ CompileDefinitionPass
    \/ CompileTypePass
    \/ CompileNewCompiler
    \/ CompileGenerate
    \/ CompileSaveIn

SpecLower == InitAnalyze /\ [][LowerNext]_vars

\* what compile_expression takes for granted of an expression: each node
\* holds a type, the operands of a Binary node and of a ComparisonChain are
\* Number, the operand of a prefix is Boolean, and a variable has an entry in
\* the function's var_types
RECURSIVE Lowerable(_, _)
Lowerable(e, var_types) ==
    /\ TypeInfo(e) # NoType
    /\ CASE e.node = "Binary" ->
              /\ TypeInfo(e.left) = TypeNumber /\ TypeInfo(e.right) = TypeNumber
              /\ Lowerable(e.left, var_types) /\ Lowerable(e.right, var_types)
         [] e.node = "ComparisonChain" ->
              /\ e.comparisons # <<>>
              /\ TypeInfo(e.first_element) = TypeNumber
              /\ Lowerable(e.first_element, var_types)
              /\ \A i \in DOMAIN e.comparisons :
                    /\ TypeInfo(e.comparisons[i][2]) = TypeNumber
                    /\ Lowerable(e.comparisons[i][2], var_types)
         [] e.node = "PrefixExpression" ->
              /\ TypeInfo(e.expression) = TypeBoolean
              /\ Lowerable(e.expression, var_types)
         [] e.node = "Var" -> e.name \in DOMAIN var_types
         [] OTHER -> TRUE

\* the same of the statements of a body
RECURSIVE BodyLowerable(_, _)
BodyLowerable(body, var_types) ==
    \A i \in DOMAIN body :
        CASE body[i].node = "If" ->
                /\ Lowerable(body[i].condition, var_types)
                /\ BodyLowerable(body[i].then, var_types)
                /\ BodyLowerable(body[i].otherwise, var_types)
          [] body[i].node = "Assignment" ->
                /\ body[i].var_name \in DOMAIN var_types
                /\ Lowerable(body[i].expression, var_types)
          [] OTHER -> Lowerable(body[i].expression, var_types)

\* C23: a file that the DefinitionPass and the TypePass accept holds what
\* the generator takes for granted at every node, and compile_code ends
\* without a panic: no unreachable!() and no unwrap on None is reached
C23_GeneratorPreconditions ==
    /\ compiler.pc \in {"new", "generate", "save", "ok"} =>
          \A i \in DOMAIN compiler.ast :
              BodyLowerable(compiler.ast[i].body, compiler.ast[i].metadata.var_types)
    /\ compiler.pc # "panic"

\* compile_code returned the module of a function that negates a variable
C23_Witness ==
    /\ compiler.pc = "save"
    /\ BodyHasNode(compiler.ast[1].body, "PrefixExpression")
    /\ BodyHasNode(compiler.ast[1].body, "Var")

(***************************************************************************)
(* syntax_parser.rs: parse_literal on a Minus token, through the lexer and *)
(* the parser.                                                             *)
(***************************************************************************)
\* the pieces of the printed expression
MinusPieces ==
    {<<"-">>,
     <<"1">>,
     <<"2", "0">>,
     <<"x">>,
     <<"(">>,
     <<")">>,
     <<"1", "+">>,
     <<"1", "<">>,
     <<"t", "r", "u", "e">>,
     <<Quote, "a", Quote>> }

InitLiteral ==
    /\ \E n \in 1..MaxPieces : \E ps \in [1..n -> MinusPieces] :
          source = PrintPrefix \o Concat(ps) \o PrintSuffix
    /\ lexer = LexerNew(source)
    /\ returned = NotReturned
    /\ compiler = CompilerAt("lexer")
    /\ machine = MachineOff

SpecLiteral == InitLiteral /\ [][ParserNext]_vars

\* the value that a string of decimal digits writes
RECURSIVE Decimal(_)
Decimal(digits) ==
    IF digits = <<>> THEN 0
    ELSE Decimal(SubSeq(digits, 1, Len(digits) - 1)) * 10
            + DigitValue(digits[Len(digits)])

\* the leaves of an expression, from left to right
RECURSIVE Leaves(_), ChainLeaves(_, _)
Leaves(e) ==
    CASE e.node = "Binary" -> Leaves(e.left) \o Leaves(e.right)
      [] e.node = "ComparisonChain" ->
            Leaves(e.first_element) \o ChainLeaves(e.comparisons, 1)
      [] e.node = "PrefixExpression" -> Leaves(e.expression)
      [] OTHER -> <<e>>

ChainLeaves(comparisons, i) ==
    IF i > Len(comparisons) THEN <<>>
    ELSE Leaves(comparisons[i][2]) \o ChainLeaves(comparisons, i + 1)

\* the first token, from token i on, that is no opening parenthesis
RECURSIVE SkipParens(_)
SkipParens(i) ==
    IF returned.tokens[i].value.kind = "OpenParen" THEN SkipParens(i + 1) ELSE i

\* the expression of the print statement begins at the ninth token: it
\* begins, after parentheses, with a number and an operator
AfterOperator ==
    /\ returned.tokens[SkipParens(9)].value.kind = "Number"
    /\ returned.tokens[SkipParens(9) + 1].value.kind \in {"Plus", "LessThan"}

\* the token at which the parser first looks for an atom that is no
\* parenthesis and no number before an operator, and the count of the leaves
\* up to it
AtomToken == IF AfterOperator THEN SkipParens(SkipParens(9) + 2) ELSE SkipParens(9)
AtomCount == IF AfterOperator THEN 2 ELSE 1

\* the parser returned on tokens with a Minus where it looks for an atom
MinusParsed ==
    /\ returned.kind = "ok"
    /\ compiler.pc \in {"definition", "err", "panic"}
    /\ returned.tokens[AtomToken].value.kind = "Minus"

\* C24: where the parser looks for an atom, a Minus followed by a Number of
\* digits d becomes the one literal Number(-d), and a Minus followed by
\* another token makes the parser return an error at that token
C24_MinusFolded ==
    MinusParsed =>
        IF returned.tokens[AtomToken + 1].value.kind = "Number"
        THEN /\ compiler.pc # "panic"
             /\ compiler.pc = "definition" =>
                   /\ Len(Leaves(ParsedExpression)) >= AtomCount
                   /\ Leaves(ParsedExpression)[AtomCount].node = "Literal"
                   /\ Leaves(ParsedExpression)[AtomCount].literal =
                         LiteralType("Number",
                                     -Decimal(returned.tokens[AtomToken + 1].value.text))
        ELSE /\ compiler.pc = "err"
             /\ compiler.error.location = returned.tokens[AtomToken + 1].source_location

\* the parser folded the Minus and the Number after an operator
C24_Witness ==
    /\ MinusParsed
    /\ AfterOperator
    /\ compiler.pc = "definition"
    /\ Leaves(ParsedExpression)[2].literal = LiteralType("Number", -20)

\* the parser returned the error of a Minus before an identifier
MinusRejected ==
    /\ MinusParsed
    /\ returned.tokens[AtomToken + 1].value.kind = "Identifier"
    /\ compiler.pc = "err"

(***************************************************************************)
(* The run of programs that assign a string variable to a variable:        *)
(* llvm_generator.rs, compile_assignment.                                  *)
(***************************************************************************)
CopyStatements ==
    {<<"x", " ", "=", " ", Quote, "h", "i", Quote, ";", "\n">>,
     <<"x", " ", "=", " ", Quote, Quote, ";", "\n">>,
     <<"x", " ", "=", " ", "x", ";", "\n">>,
     <<"y", " ", "=", " ", "x", ";", "\n">>,
     <<"a", "s", "s", "e", "r", "t", " ", "n", " ", "=", "=", " ", "2", ";",
       "\n">> }

CopyPrograms ==
    { RunHeader \o Concat(ps) \o ReturnZero :
        ps \in UNION {[1..n -> CopyStatements] : n \in 0..MaxStatements} }

InitCopy ==
    /\ source \in CopyPrograms
    /\ \E overflow_checks \in BOOLEAN :
          lexer = RunLexer([EatWhitespace(LexerNew(source)) EXCEPT !.pc = "loop"],
                           overflow_checks)
    /\ returned = ReturnOf(lexer)
    /\ compiler = CompilerAt("parser")
    /\ machine = MachineOff

SpecCopy == InitCopy /\ [][RunNext]_vars

\* the address of an allocation that free or realloc has released
IsReleased(m, pointer) ==
    /\ pointer.t = "ptr"
    /\ pointer.obj \in DOMAIN m.memory
    /\ m.memory[pointer.obj].kind = "heap"
    /\ ~m.memory[pointer.obj].live

\* C25: no call that reads memory (strlen, memcpy, printf) is given the
\* address of an allocation that was released: in a borrowed-string
\* assignment, x = x; included, the source of memcpy is an allocation that
\* the realloc before it has not released
C25_NoReadAfterRelease ==
    \A name \in {StrlenName, MemcpyName, PrintfName} :
        AtCall(name) =>
            \A i \in DOMAIN Current(compiler.output, machine).args :
                ~IsReleased(machine, Arg(compiler.output, machine, i))

\* the same of the programs that assign no variable to itself
NoSelfAssignment ==
    compiler.ast # <<>> =>
        \A i \in DOMAIN compiler.ast[1].body :
            compiler.ast[1].body[i].node = "Assignment" =>
                \/ compiler.ast[1].body[i].expression.node # "Var"
                \/ compiler.ast[1].body[i].expression.name # compiler.ast[1].body[i].var_name

NoReadAfterReleaseElsewhere ==
    (machine.status = "run" /\ NoSelfAssignment) => C25_NoReadAfterRelease

(***************************************************************************)
(* The blocks of the module that compile_code returns.                     *)
(***************************************************************************)
\* C26: in the module of a type-checked file every basic block ends with a
\* terminator (ret, br or unreachable) and holds no instruction after one,
\* also where a body holds no return statement
C26_BlocksTerminated ==
    compiler.pc = "save" =>
        \A b \in DOMAIN compiler.module.blocks :
            BlockWellFormed(compiler.module.blocks[b])

\* every function of the file holds one return statement, its last
\* statement, and no if statement
ReturnEndsBodies ==
    \A i \in DOMAIN compiler.ast :
        /\ compiler.ast[i].body # <<>>
        /\ \A j \in DOMAIN compiler.ast[i].body :
              /\ compiler.ast[i].body[j].node # "If"
              /\ compiler.ast[i].body[j].node = "Return" <=> j = Len(compiler.ast[i].body)

\* the same of the files whose functions end with their only return
BlocksTerminatedByReturn ==
    (compiler.pc = "save" /\ ReturnEndsBodies) =>
        \A b \in DOMAIN compiler.module.blocks :
            BlockWellFormed(compiler.module.blocks[b])

ReturnEndsBodiesSaved == compiler.pc = "save" /\ ReturnEndsBodies

(***************************************************************************)
(* syntax_parser.rs: parse_literal on Number tokens up to and above        *)
(* i32::MAX, through the lexer and the parser.                             *)
(***************************************************************************)
\* the pieces of a string of digits: 214748364 and 7 write i32::MAX
DigitPieces ==
    {<<"2", "1", "4", "7", "4", "8", "3", "6", "4">>,
     <<"7">>,
     <<"8">>,
     <<"0">>,
     <<"1">> }

Signs == { <<>>, <<"-">> }

InitNumber ==
    /\ \E n \in 1..MaxPieces : \E ps \in [1..n -> DigitPieces], sign \in Signs :
          source = PrintPrefix \o sign \o Concat(ps) \o PrintSuffix
    /\ lexer = LexerNew(source)
    /\ returned = NotReturned
    /\ compiler = CompilerAt("lexer")
    /\ machine = MachineOff

SpecNumber == InitNumber /\ [][ParserNext]_vars

\* the Number token of the printed expression: the ninth token, or the tenth
\* after a Minus
NumberToken ==
    IF returned.tokens[9].value.kind = "Minus" THEN returned.tokens[10]
    ELSE returned.tokens[9]

\* the value that the text writes
WrittenValue ==
    IF returned.tokens[9].value.kind = "Minus" THEN -Decimal(NumberToken.value.text)
    ELSE Decimal(NumberToken.value.text)

NumberParsed ==
    /\ returned.kind = "ok"
    /\ compiler.pc \in {"definition", "err", "panic"}

\* the digits without their leading zeros
RECURSIVE Stripped(_)
Stripped(digits) ==
    IF digits # <<>> /\ Head(digits) = "0" THEN Stripped(Tail(digits)) ELSE digits

\* a is at most b, of two strings of as many digits
RECURSIVE DigitsAtMost(_, _)
DigitsAtMost(a, b) ==
    \/ a = <<>>
    \/ DigitValue(Head(a)) < DigitValue(Head(b))
    \/ Head(a) = Head(b) /\ DigitsAtMost(Tail(a), Tail(b))

\* the digits write a value of at most i32::MAX
FitsI32(digits) ==
    \/ Len(Stripped(digits)) < 10
    \/ /\ Len(Stripped(digits)) = 10
       /\ DigitsAtMost(Stripped(digits),
                       <<"2", "1", "4", "7", "4", "8", "3", "6", "4", "7">>)

\* C27: for a Number token the parser returns the literal of the token's
\* value, an i32, or an error; digits that write a value outside the range of
\* i32, 2147483648 after a Minus included, do not end the compiler in a panic
C27_NumberOrError ==
    NumberParsed =>
        /\ compiler.pc # "panic"
        /\ compiler.pc = "definition" =>
              /\ FitsI32(NumberToken.value.text)
              /\ ParsedExpression.node = "Literal"
              /\ ParsedExpression.literal = LiteralType("Number", WrittenValue)

\* the same of the digits that write at most i32::MAX
NumberInRange ==
    (NumberParsed /\ FitsI32(NumberToken.value.text)) =>
        /\ compiler.pc = "definition"
        /\ ParsedExpression.node = "Literal"
        /\ ParsedExpression.literal = LiteralType("Number", WrittenValue)

\* the digits above i32::MAX end the parser in the panic of unwrap
NumberAboveRange ==
    (NumberParsed /\ ~FitsI32(NumberToken.value.text)) => compiler.pc = "panic"

MaxParsed ==
    /\ NumberParsed
    /\ compiler.pc = "definition"
    /\ ParsedExpression.literal = LiteralType("Number", -MaxI32)


(***************************************************************************)
(* SyntaxParser::parse_file on token vectors that break off anywhere: a    *)
(* function header, whole or cut short, and the tokens after it.           *)
(***************************************************************************)
EndPieces ==
    {<<"p", "r", "i", "n", "t", " ">>,
     <<"1", " ">>,
     <<"-", " ">>,
     <<";", " ">>,
     <<"x", " ">>,
     <<"=", " ">>,
     <<"t", "e", "s", "t", " ">>,
     <<Quote, "t", Quote, " ">>,
     <<"-", ">", " ">>,
     <<"i", "f", " ">>,
     <<"e", "l", "s", "e", " ">>,
     <<"{", " ">>,
     <<"}", " ">>,
     <<"(", " ">>,
     <<"!", " ">> }

\* the header of a function, cut after each of its tokens
CutHeaders ==
    {<<"f", "n", " ">>,
     <<"f", "n", " ", "f", " ">>,
     <<"f", "n", " ", "f", " ", "(", " ">>,
     <<"f", "n", " ", "f", " ", "(", " ", ")", " ">>,
     <<"f", "n", " ", "f", " ", "(", " ", ")", " ", "-", ">", " ">>,
     <<"f", "n", " ", "f", " ", "(", " ", ")", " ", "-", ">", " ", "N", "u",
       "m", " ">> }

WholeHeader ==
    <<"f", "n", " ", "f", " ", "(", " ", ")", " ", "-", ">", " ", "N", "u",
      "m", " ", "{", " ">>

\* no function, a function at its first statement, and at its second
WholeHeaders ==
    {<<>>, WholeHeader,
     WholeHeader \o
        <<"i", "f", " ", "1", " ", "{", " ", "}", " ">> }

InitEndOfFile ==
    /\ \/ \E n \in 0..MaxPieces : \E ps \in [1..n -> EndPieces], h \in WholeHeaders :
             source = h \o Concat(ps)
       \/ \E h \in CutHeaders, p \in EndPieces \cup {<<>>} : source = h \o p
    /\ \E overflow_checks \in BOOLEAN :
          lexer = RunLexer([EatWhitespace(LexerNew(Dashed(source))) EXCEPT !.pc = "loop"],
                           overflow_checks)
    /\ returned = [ReturnOf(lexer) EXCEPT !.tokens = WithKeywords(WithBang(source, @))]
    /\ compiler = CompilerAt("parser")
    /\ machine = MachineOff

SpecEndOfFile == InitEndOfFile /\ [][CompileParser]_vars

\* the token vector ends with its single EndOfFile token
EndsWithEndOfFile(tokens) ==
    /\ tokens # <<>>
    /\ \A i \in DOMAIN tokens : (tokens[i].value.kind = "EndOfFile") <=> (i = Len(tokens))

ParserReturned == compiler.pc \in {"definition", "err", "panic"}

\* C28: on every token vector that ends with its single EndOfFile token,
\* parse_file returns Ok or Err: neither advance nor peek is called on an
\* empty token queue
C28_NothingReadAfterEndOfFile ==
    (ParserReturned /\ EndsWithEndOfFile(returned.tokens))
        => compiler.pc \in {"definition", "err"}

\* a function body breaks off and the error is at the EndOfFile token
C28_Witness ==
    /\ compiler.pc = "err"
    /\ EndsWithEndOfFile(returned.tokens)
    /\ Len(returned.tokens) > 8
    /\ compiler.error.location = returned.tokens[Len(returned.tokens)].source_location

\* a file of no function is parsed to the empty file
EmptyFileParsed ==
    /\ compiler.pc = "definition"
    /\ EndsWithEndOfFile(returned.tokens)
    /\ compiler.ast = <<>>


(***************************************************************************)
(* compile_to_ir on a function of one test statement, by the name of the   *)
(* test.                                                                   *)
(***************************************************************************)
\* the pieces of a test name: 1, 8 and 9 bytes of ASCII, and 2 bytes of one
\* character
NamePieces ==
    {<<"a">>, <<NonAsciiLetter>>,
     <<"b", "b", "b", "b", "b", "b", "b", "b">>,
     <<"c", "c", "c", "c", "c", "c", "c", "c", "c">> }

TestNames == UNION { { Concat(ps) : ps \in [1..n -> NamePieces] } : n \in 0..MaxPieces }

TestedExpressions ==
    {<<"t", "r", "u", "e">>,
     <<"1", " ", "=", "=", " ", "2">> }

TestPrograms ==
    { MainNum \o <<"t", "e", "s", "t", " ", Quote>> \o name \o <<Quote, " ", "-", ">", " ">>
          \o e \o <<";", "\n">> \o ReturnZero
        : name \in TestNames, e \in TestedExpressions }

InitTest ==
    /\ source \in TestPrograms
    /\ \E overflow_checks \in BOOLEAN :
          lexer = RunLexer([EatWhitespace(LexerNew(source)) EXCEPT !.pc = "loop"],
                           overflow_checks)
    /\ returned = ReturnOf(lexer)
    /\ compiler = CompilerAt("parser")
    /\ machine = MachineOff

SpecTest == InitTest /\ [][LowerNext]_vars

TestName == compiler.ast[1].body[1].name

HasGlobal(module, name, value) ==
    \E i \in DOMAIN module.globals :
        module.globals[i] = [name |-> name, bytes |-> Append(value, Nul)]

\* the sequence holds the other as a run of consecutive elements
Holds(s, part) ==
    \E i \in 0..(Len(s) - Len(part)) : SubSeq(s, i + 1, i + Len(part)) = part

\* C29: compile_code of a function with a test statement returns for every
\* length of the test name, and the module holds the OK and the FAILED
\* message, each with the name of the test and the name of the source file
C29_TestLowered ==
    (compiler.pc \in {"save", "panic"} /\ returned.kind = "ok")
        => /\ compiler.pc = "save"
           /\ \A name \in {"Test_Ok_String", "Test_Fail_String"} :
                 \E i \in DOMAIN compiler.module.globals :
                    /\ compiler.module.globals[i].name = name
                    /\ Holds(compiler.module.globals[i].bytes, StrBytes(TestName))
                    /\ Holds(compiler.module.globals[i].bytes, StrBytes(InputFile))

\* a name of up to 17 bytes is lowered, to the two messages of compile_test
ShortNameLowered ==
    (compiler.pc \in {"save", "panic"} /\ returned.kind = "ok"
        /\ StrLen(TestName) <= 17)
        => /\ compiler.pc = "save"
           /\ HasGlobal(compiler.module, "Test_Ok_String",
                        OkLabel(TestLabel(TestName, InputFile)))
           /\ HasGlobal(compiler.module, "Test_Fail_String",
                        FailedLabel(TestLabel(TestName, InputFile)))

\* a name of more than 17 bytes ends compile_code in a panic
LongNamePanics ==
    (compiler.pc \in {"save", "panic"} /\ returned.kind = "ok"
        /\ StrLen(TestName) > 17)
        => compiler.pc = "panic"

\* the longest name that is lowered
LongestNameLowered == compiler.pc = "save" /\ StrLen(TestName) = 17


(***************************************************************************)
(* Claims on the spans of the errors of Lexer::parse_file.                 *)
(***************************************************************************)
\* the line of the i-th character of the text, a newline on the line it ends
LineAt(text, i) == 1 + Cardinality({j \in 1..(i - 1) : text[j] = "\n"})

\* the number of characters that the lexer took
Consumed == Len(source) - Len(lexer.code)

LastAt(c) ==
    CHOOSE i \in 1..Consumed :
        source[i] = c /\ \A j \in (i + 1)..Consumed : source[j] # c

\* the character the error is about: the opening quote of the string that
\* is not closed, the ! that no = follows, the character that is invalid
Offending ==
    CASE Head(lexer.error.message) = "Unclosed String"  -> LastAt(Quote)
      [] Head(lexer.error.message) = "Expected = found" -> LastAt("!")
      [] OTHER                                          -> Consumed

\* C30: the span of every error of the lexer is on the line of the
\* offending character, for a string that is not closed the line the
\* string starts on, and its columns are at least 1 and at most one past
\* the last character of that line
C30_ErrorSpans ==
    lexer.pc = "err" =>
        LET loc  == lexer.error.location
            line == LineAt(source, Offending)
        IN  /\ loc.line_start = line /\ loc.line_end = line
            /\ 1 <= loc.char_start
            /\ loc.char_start <= loc.char_end
            /\ loc.char_end <= Len(Lines(source)[line]) + 1

\* the character after the one the error is about ends the line
ErrorAtLineEnd ==
    /\ Head(lexer.error.message) \in {"Unclosed String", "Expected = found"}
    /\ Consumed > 0 /\ source[Consumed] = "\n"

\* C30 for the errors that are raised before the end of the line was taken
ErrorSpansWithinLine == (lexer.pc = "err" /\ ~ErrorAtLineEnd) => C30_ErrorSpans

\* where the newline was taken, the error is at column 0 of the next line
ErrorSpansAfterLine ==
    (lexer.pc = "err" /\ ErrorAtLineEnd) =>
        lexer.error.location =
            SourceLocationNew(LineAt(source, Offending) + 1, 0, 0)

\* each of the three errors of the lexer is raised
InvalidCharRaised == lexer.pc = "err" /\ Head(lexer.error.message) = "invalid char"

=============================================================================
